---- MODULE Spec2Model ----
(***************************************************************************)
(* The analysis orchestration pipeline of the PhishGuard browser extension *)
(* (src/browser_extension/dist/background.js): feature extraction, result  *)
(* cache, remote classification with retry, local heuristic scorer, and    *)
(* the message handlers around them.                                       *)
(*                                                                         *)
(* JavaScript values are modelled as follows.                              *)
(*   - an object is a record holding exactly the properties that are set   *)
(*     to a defined value; Has(o, f) tests for a property;                 *)
(*   - null and undefined credentials are the string Null;                 *)
(*   - a string is a TLA+ string over printable ASCII plus characters      *)
(*     outside Latin-1;                                                    *)
(*   - a number that is a count or a time in ms is an integer;             *)
(*   - a fractional number (a confidence) is an IEEE-754 double, held as   *)
(*     a record [e, n] that denotes (e * 2^55 - n) / (100 * 2^55).         *)
(***************************************************************************)
EXTENDS Integers, Sequences, FiniteSets, TLC

----------------------------------------------------------------------------
(* Program constants *)

API_CONFIG ==
    [ endpoint      |-> "http://localhost:8000/api/v1",
      timeout       |-> 30000,
      retryAttempts |-> 3,
      retryDelay    |-> 1000 ]

\* the literal 3600000 of getCachedResult and of the cacheCleanup alarm
CACHE_TTL_MS == 3600000

\* the literal 50 of logToHistory
ANALYSIS_HISTORY_CAP == 50

----------------------------------------------------------------------------
(* JavaScript objects *)

EmptyObject == [f \in {} |-> TRUE]

Has(o, f) == f \in DOMAIN o

\* { ...o, [f]: v } where an undefined v leaves the property unset
Null == "null"

----------------------------------------------------------------------------
(* Strings *)

\* the characters i..j of s that exist
Slice(s, i, j) == SubSeq(s, i, IF j > Len(s) THEN Len(s) ELSE j)

CharAt(s, i) == Slice(s, i, i)

\* String.prototype.includes
Includes(s, w) ==
    \E i \in 1..(Len(s) - Len(w) + 1) : SubSeq(s, i, i + Len(w) - 1) = w

\* String.prototype.endsWith
EndsWith(s, w) ==
    Len(w) <= Len(s) /\ SubSeq(s, Len(s) - Len(w) + 1, Len(s)) = w

UpperLetters == "ABCDEFGHIJKLMNOPQRSTUVWXYZ"
LowerLetters == "abcdefghijklmnopqrstuvwxyz"

LowerChar(c) ==
    IF \E i \in 1..26 : CharAt(UpperLetters, i) = c
    THEN CharAt(LowerLetters, CHOOSE i \in 1..26 : CharAt(UpperLetters, i) = c)
    ELSE c

RECURSIVE toLowerCase(_)
toLowerCase(s) ==
    IF s = "" THEN "" ELSE LowerChar(Head(s)) \o toLowerCase(Tail(s))

\* the character class \s, as far as the model's alphabet has it
IsWhitespace(c) == c \in {" ", "\t", "\n"}

\* printable ASCII: codes 32..95 and 97..126
AsciiLow ==
    " !\"#$%&'()*+,-./0123456789:;<=>?@ABCDEFGHIJKLMNOPQRSTUVWXYZ[\\]^_"
AsciiHigh == "abcdefghijklmnopqrstuvwxyz{|}~"

\* String.prototype.charCodeAt for one character; a character that is not
\* printable ASCII stands for one outside Latin-1 (code above 255)
charCode(c) ==
    IF \E i \in 1..Len(AsciiLow) : CharAt(AsciiLow, i) = c
    THEN 31 + (CHOOSE i \in 1..Len(AsciiLow) : CharAt(AsciiLow, i) = c)
    ELSE IF \E i \in 1..Len(AsciiHigh) : CharAt(AsciiHigh, i) = c
    THEN 96 + (CHOOSE i \in 1..Len(AsciiHigh) : CharAt(AsciiHigh, i) = c)
    ELSE 8364

Base64Alphabet ==
    "ABCDEFGHIJKLMNOPQRSTUVWXYZabcdefghijklmnopqrstuvwxyz0123456789+/"

Sextet(v) == CharAt(Base64Alphabet, v + 1)

\* btoa throws InvalidCharacterError on a character above code 255
btoaThrows(s) == \E i \in 1..Len(s) : charCode(CharAt(s, i)) > 255

\* btoa on a string of Latin-1 characters
RECURSIVE btoa(_)
btoa(s) ==
    IF Len(s) = 0 THEN ""
    ELSE LET c1 == charCode(CharAt(s, 1))
             c2 == IF Len(s) >= 2 THEN charCode(CharAt(s, 2)) ELSE 0
             c3 == IF Len(s) >= 3 THEN charCode(CharAt(s, 3)) ELSE 0
             s1 == Sextet(c1 \div 4)
             s2 == Sextet((c1 % 4) * 16 + (c2 \div 16))
             s3 == Sextet((c2 % 16) * 4 + (c3 \div 64))
             s4 == Sextet(c3 % 64)
         IN  IF Len(s) = 1 THEN s1 \o s2 \o "=="
             ELSE IF Len(s) = 2 THEN s1 \o s2 \o s3 \o "="
             ELSE s1 \o s2 \o s3 \o s4 \o btoa(SubSeq(s, 4, Len(s)))

\* String.prototype.substring(0, n)
Substring0(s, n) == IF Len(s) <= n THEN s ELSE SubSeq(s, 1, n)

----------------------------------------------------------------------------
(* IEEE-754 doubles in {0} \cup [0.125, 4)                                 *)
(* [e, n] denotes (e * 2^55 - n) / (100 * 2^55): e hundredths, less n      *)
(* units of 2^-55 / 100.  Every double of that range is such a pair with   *)
(* a small n, and 2^55 % 3200 = 768 gives the low bits of its mantissa.    *)

\* the spacing of doubles at the value [e, n], in units of 2^-55
ulp55(e, n) ==
    IF e > 200 \/ (e = 200 /\ n <= 0) THEN 16
    ELSE IF e > 100 \/ (e = 100 /\ n <= 0) THEN 8
    ELSE IF e > 50 \/ (e = 50 /\ n <= 0) THEN 4
    ELSE IF e > 25 \/ (e = 25 /\ n <= 0) THEN 2
    ELSE 1

\* round-to-nearest, ties to even, of the real (e * 2^55 - n) / (100 * 2^55)
roundDouble(e, n) ==
    LET u == ulp55(e, n)
        T == (e * 768 - n) % (200 * u)
        r == T % (100 * u)
    IN  IF r = 0 THEN [e |-> e, n |-> n]
        ELSE IF r < 50 * u \/ (r = 50 * u /\ T = r)
             THEN [e |-> e, n |-> n + r]
             ELSE [e |-> e, n |-> n - (100 * u - r)]

\* the double written as the decimal literal e/100
Dbl(e) == roundDouble(e, 0)

\* a + b
fadd(a, b) == roundDouble(a.e + b.e, a.n + b.n)

\* a >= b, a > b, a = b
fge(a, b) == a.e > b.e \/ (a.e = b.e /\ a.n <= b.n)
fgt(a, b) == a.e > b.e \/ (a.e = b.e /\ a.n < b.n)

\* Math.min(a, b)
fmin(a, b) == IF fge(a, b) THEN b ELSE a

\* truthiness of a number
IsNumber(v) == Has(v, "e")
NonZero(v) == IsNumber(v) /\ ~(v.e = 0 /\ v.n = 0)

----------------------------------------------------------------------------
(* EmailRecord: the object a monitor sends with analyzeEmail.  The string  *)
(* properties from, fromName, subject, body, bodyText are always set (the  *)
(* monitors default them to ''); attachments is the list of attachment     *)
(* names; spfPass, dkimPass, urls and provider are set by some monitors    *)
(* only.                                                                   *)

\* a || b on strings
StrOr(a, b) == IF a # "" THEN a ELSE b

\* o.f || d for a string property that may be unset
StrProp(o, f, d) == IF Has(o, f) /\ o[f] # "" THEN o[f] ELSE d

\* o.f || false for a boolean property that may be unset
BoolProp(o, f) == Has(o, f) /\ o[f]

\* email.split('@')[1]: the text after the first '@', up to the next one;
\* NoSegment when there is no '@'
NoSegment == "<undefined>"
SplitAt1(email) ==
    IF ~Includes(email, "@") THEN NoSegment
    ELSE LET i == CHOOSE k \in 1..Len(email) :
                      /\ CharAt(email, k) = "@"
                      /\ \A m \in 1..(k - 1) : CharAt(email, m) # "@"
             rest == SubSeq(email, i + 1, Len(email))
         IN  IF ~Includes(rest, "@") THEN rest
             ELSE LET j == CHOOSE k \in 1..Len(rest) :
                               /\ CharAt(rest, k) = "@"
                               /\ \A m \in 1..(k - 1) : CharAt(rest, m) # "@"
                  IN  SubSeq(rest, 1, j - 1)

suspiciousTLDs ==
    {".xyz", ".top", ".work", ".click", ".loan", ".win", ".gq", ".tk",
     ".ml", ".ga", ".cf", ".buzz"}

checkSuspiciousTLD(email) ==
    IF email = "" THEN 0
    ELSE IF \E tld \in suspiciousTLDs : Includes(toLowerCase(email), tld)
         THEN 1 ELSE 0

trustedDomains ==
    {"paypal", "amazon", "microsoft", "google", "apple", "bank", "wells",
     "chase", "citibank"}

checkDisplayNameMismatch(email, displayName) ==
    IF displayName = "" \/ email = "" THEN 0
    ELSE LET seg == SplitAt1(email)
             emailDomain == IF seg = NoSegment THEN "" ELSE toLowerCase(seg)
             nameLower == toLowerCase(displayName)
         IN  IF \E domain \in trustedDomains :
                    Includes(nameLower, domain) /\ ~Includes(emailDomain, domain)
             THEN 1 ELSE 0

urgentWords ==
    {"urgent", "immediate", "action required", "suspended", "verify",
     "confirm", "expire", "limited time", "act now", "click here",
     "update required", "security alert", "unusual activity",
     "verify your account"}

checkUrgentKeywords(subject, body) ==
    LET text == toLowerCase(subject \o " " \o body)
    IN  IF \E word \in urgentWords : Includes(text, word) THEN 1 ELSE 0

financialWords ==
    {"payment", "invoice", "refund", "credit card", "bank account",
     "wire transfer", "paypal", "bitcoin", "cryptocurrency", "transaction",
     "billing", "debit card", "ssn", "social security", "tax return", "irs"}

checkFinancialKeywords(subject, body) ==
    LET text == toLowerCase(subject \o " " \o body)
    IN  IF \E word \in financialWords : Includes(text, word) THEN 1 ELSE 0

\* where a match of /https?:\/\/ at position i of the lower-cased text ends
\* (the index after "://"), 0 when there is none
SchemeEnd(lower, i) ==
    IF Slice(lower, i, i + 7) = "https://" THEN i + 8
    ELSE IF Slice(lower, i, i + 6) = "http://" THEN i + 7
    ELSE 0

\* the index after the longest run of characters from position i on that
\* are not whitespace and not in stop
RECURSIVE RunEnd(_, _, _)
RunEnd(s, i, stop) ==
    IF i > Len(s) \/ IsWhitespace(CharAt(s, i)) \/ CharAt(s, i) \in stop
    THEN i ELSE RunEnd(s, i + 1, stop)

\* String.prototype.match for the global, case-insensitive expression
\* /https?:\/\/[^\s stop]+/: the matched substrings of s, left to right
\* (lower is s in lower case)
RECURSIVE LinkMatches(_, _, _, _)
LinkMatches(s, lower, i, stop) ==
    IF i > Len(s) THEN <<>>
    ELSE LET p == SchemeEnd(lower, i)
             q == IF p = 0 THEN 0 ELSE RunEnd(s, p, stop)
         IN  IF p # 0 /\ q > p
             THEN <<SubSeq(s, i, q - 1)>> \o LinkMatches(s, lower, q, stop)
             ELSE LinkMatches(s, lower, i + 1, stop)

countLinks(body) ==
    IF body = "" THEN 0
    ELSE Len(LinkMatches(body, toLowerCase(body), 1, {"<", ">", "\""}))

countExternalLinks(body, senderEmail) ==
    IF body = "" \/ senderEmail = "" THEN 0
    ELSE LET domain == SplitAt1(senderEmail)
         IN  IF domain = NoSegment \/ domain = "" THEN 0
             ELSE LET matches == LinkMatches(body, toLowerCase(body), 1,
                                             {"<", ">", "/", "\""})
                  IN  Cardinality({k \in 1..Len(matches) :
                                      ~Includes(matches[k], domain)})

shorteners ==
    {"bit.ly", "tinyurl.com", "goo.gl", "t.co", "ow.ly", "is.gd", "buff.ly",
     "adf.ly"}

checkShortenedUrls(body) ==
    IF body = "" THEN 0
    ELSE IF \E shortener \in shorteners : Includes(body, shortener)
         THEN 1 ELSE 0

suspiciousExts ==
    {".exe", ".scr", ".bat", ".cmd", ".js", ".vbs", ".jar", ".msi", ".app",
     ".dmg", ".apk"}

checkSuspiciousAttachments(attachments) ==
    IF Len(attachments) = 0 THEN 0
    ELSE IF \E k \in 1..Len(attachments) : \E ext \in suspiciousExts :
                EndsWith(toLowerCase(attachments[k]), ext)
         THEN 1 ELSE 0

RECURSIVE Gcd(_, _)
Gcd(a, b) == IF b = 0 THEN a ELSE Gcd(b, a % b)

\* Math.min(html.length / (text.length || 1), 10), as a fraction in lowest
\* terms (the quotient of two integers determines the double)
calculateHtmlRatio(html, text) ==
    IF html = "" \/ text = "" THEN [num |-> 0, den |-> 1]
    ELSE IF Len(html) >= 10 * Len(text) THEN [num |-> 10, den |-> 1]
    ELSE LET g == Gcd(Len(html), Len(text))
         IN  [num |-> Len(html) \div g, den |-> Len(text) \div g]

\* the index after the run of whitespace that starts at position i
RECURSIVE RunEndWs(_, _)
RunEndWs(s, i) ==
    IF i > Len(s) \/ ~IsWhitespace(CharAt(s, i)) THEN i ELSE RunEndWs(s, i + 1)

\* a match of  head \s* tail  somewhere in the lower-cased text
MatchesSpaced(lower, head, tail) ==
    \E i \in 1..Len(lower) :
        /\ Slice(lower, i, i + Len(head) - 1) = head
        /\ LET j == RunEndWs(lower, i + Len(head))
           IN  Slice(lower, j, j + Len(tail) - 1) = tail

checkHiddenText(body) ==
    IF body = "" THEN 0
    ELSE LET lower == toLowerCase(body)
         IN  IF \/ MatchesSpaced(lower, "display:", "none")
                \/ MatchesSpaced(lower, "visibility:", "hidden")
                \/ MatchesSpaced(lower, "font-size:", "0")
                \/ MatchesSpaced(lower, "color:", "#fff")
             THEN 1 ELSE 0

\* the matches of the global, case-insensitive expression /<img[^>]*>/
RECURSIVE ImageMatches(_, _)
ImageMatches(lower, i) ==
    IF i > Len(lower) THEN 0
    ELSE IF /\ Slice(lower, i, i + 3) = "<img"
            /\ \E j \in (i + 4)..Len(lower) : CharAt(lower, j) = ">"
         THEN LET j == CHOOSE k \in (i + 4)..Len(lower) :
                           /\ CharAt(lower, k) = ">"
                           /\ \A m \in (i + 4)..(k - 1) : CharAt(lower, m) # ">"
              IN  1 + ImageMatches(lower, j + 1)
         ELSE ImageMatches(lower, i + 1)

countImages(body) ==
    IF body = "" THEN 0 ELSE ImageMatches(toLowerCase(body), 1)

\* new Date(timestamp).getHours(), the local time zone taken to be UTC
getHours(timestamp) == (timestamp \div 3600000) % 24

extractFeatures(emailData) ==
    LET text == StrOr(emailData.bodyText, emailData.body)
    IN  [ has_suspicious_tld         |-> checkSuspiciousTLD(emailData.from),
          sender_domain_age          |-> 0,
          has_display_name_mismatch  |->
              checkDisplayNameMismatch(emailData.from, emailData.fromName),
          subject_length             |-> Len(emailData.subject),
          body_length                |-> Len(text),
          has_urgent_keywords        |-> checkUrgentKeywords(emailData.subject, text),
          has_financial_keywords     |-> checkFinancialKeywords(emailData.subject, text),
          num_links                  |->
              IF Has(emailData, "urls") THEN Len(emailData.urls)
              ELSE countLinks(emailData.body),
          num_external_links         |->
              countExternalLinks(emailData.body, emailData.from),
          has_shortened_urls         |-> checkShortenedUrls(emailData.body),
          has_suspicious_attachments |->
              checkSuspiciousAttachments(emailData.attachments),
          num_attachments            |-> Len(emailData.attachments),
          html_to_text_ratio         |->
              calculateHtmlRatio(emailData.body, emailData.bodyText),
          has_hidden_text            |-> checkHiddenText(emailData.body),
          num_images                 |-> countImages(emailData.body),
          is_reply                   |-> BoolProp(emailData, "isReply"),
          time_of_day                |-> getHours(emailData.timestamp),
          has_spf_pass               |-> BoolProp(emailData, "spfPass"),
          has_dkim_pass              |-> BoolProp(emailData, "dkimPass"),
          is_unread                  |-> BoolProp(emailData, "isUnread"),
          provider                   |-> StrProp(emailData, "provider", "unknown") ]

----------------------------------------------------------------------------
(* Classification results *)

\* the value undefined where a number is expected
Undefined == [undefined |-> TRUE]

\* a bucketing whose boundaries belong to the lower level (variant for C18)
determineThreatLevel_above(confidence) ==
    IF IsNumber(confidence) /\ fgt(confidence, Dbl(90)) THEN "CRITICAL"
    ELSE IF IsNumber(confidence) /\ fgt(confidence, Dbl(70)) THEN "HIGH"
    ELSE IF IsNumber(confidence) /\ fgt(confidence, Dbl(50)) THEN "MEDIUM"
    ELSE "LOW"

\* determineThreatLevel(confidence); a comparison with undefined is false
determineThreatLevel(confidence) ==
    IF IsNumber(confidence) /\ fge(confidence, Dbl(90)) THEN "CRITICAL"
    ELSE IF IsNumber(confidence) /\ fge(confidence, Dbl(70)) THEN "HIGH"
    ELSE IF IsNumber(confidence) /\ fge(confidence, Dbl(50)) THEN "MEDIUM"
    ELSE "LOW"

\* checks whose link indicator fires from five external links on (variant
\* for C17)
localChecks_linksAtFive(features) ==
    << [fires |-> features.has_suspicious_tld # 0, weight |-> 30,
        indicator |-> "Suspicious domain extension"],
       [fires |-> features.has_urgent_keywords # 0, weight |-> 20,
        indicator |-> "Urgent language detected"],
       [fires |-> features.has_financial_keywords # 0, weight |-> 20,
        indicator |-> "Financial terms detected"],
       [fires |-> features.has_shortened_urls # 0, weight |-> 25,
        indicator |-> "Shortened URLs found"],
       [fires |-> features.has_display_name_mismatch # 0, weight |-> 35,
        indicator |-> "Sender name mismatch"],
       [fires |-> features.has_suspicious_attachments # 0, weight |-> 40,
        indicator |-> "Suspicious attachments"],
       [fires |-> features.num_external_links >= 5, weight |-> 15,
        indicator |-> "Many external links"],
       [fires |-> ~features.has_spf_pass /\ ~features.has_dkim_pass, weight |-> 20,
        indicator |-> "Email authentication failed"] >>

\* the checks of performLocalAnalysis in source order: whether the check
\* fires, its weight in hundredths, and the indicator it pushes
localChecks(features) ==
    << [fires |-> features.has_suspicious_tld # 0, weight |-> 30,
        indicator |-> "Suspicious domain extension"],
       [fires |-> features.has_urgent_keywords # 0, weight |-> 20,
        indicator |-> "Urgent language detected"],
       [fires |-> features.has_financial_keywords # 0, weight |-> 20,
        indicator |-> "Financial terms detected"],
       [fires |-> features.has_shortened_urls # 0, weight |-> 25,
        indicator |-> "Shortened URLs found"],
       [fires |-> features.has_display_name_mismatch # 0, weight |-> 35,
        indicator |-> "Sender name mismatch"],
       [fires |-> features.has_suspicious_attachments # 0, weight |-> 40,
        indicator |-> "Suspicious attachments"],
       [fires |-> features.num_external_links > 5, weight |-> 15,
        indicator |-> "Many external links"],
       [fires |-> ~features.has_spf_pass /\ ~features.has_dkim_pass, weight |-> 20,
        indicator |-> "Email authentication failed"] >>

\* suspicionScore after the first k checks
RECURSIVE suspicionScore(_, _)
suspicionScore(checks, k) ==
    IF k = 0 THEN Dbl(0)
    ELSE IF checks[k].fires
         THEN fadd(suspicionScore(checks, k - 1), Dbl(checks[k].weight))
         ELSE suspicionScore(checks, k - 1)

\* indicators after the first k checks
RECURSIVE indicatorsOf(_, _)
indicatorsOf(checks, k) ==
    IF k = 0 THEN <<>>
    ELSE IF checks[k].fires
         THEN Append(indicatorsOf(checks, k - 1), checks[k].indicator)
         ELSE indicatorsOf(checks, k - 1)

\* a scorer that calls phishing at confidence 0.5 (variant for C16)
performLocalAnalysis_atLeast(features) ==
    LET checks     == localChecks(features)
        confidence == fmin(suspicionScore(checks, Len(checks)), Dbl(100))
        isPhishing == fge(confidence, Dbl(50))
    IN  [ prediction       |-> IF isPhishing THEN "phish" ELSE "legit",
          threat           |-> isPhishing,
          confidence       |-> confidence,
          confidence_score |-> confidence,
          threat_level     |-> determineThreatLevel(confidence),
          threatType       |-> "phishing",
          model_version    |-> "local-heuristic-v1",
          indicators       |-> indicatorsOf(checks, Len(checks)),
          fallback         |-> TRUE,
          local_analysis   |-> TRUE ]

performLocalAnalysis(features) ==
    LET checks     == localChecks(features)
        confidence == fmin(suspicionScore(checks, Len(checks)), Dbl(100))
        isPhishing == fgt(confidence, Dbl(50))
    IN  [ prediction       |-> IF isPhishing THEN "phish" ELSE "legit",
          threat           |-> isPhishing,
          confidence       |-> confidence,
          confidence_score |-> confidence,
          threat_level     |-> determineThreatLevel(confidence),
          threatType       |-> "phishing",
          model_version    |-> "local-heuristic-v1",
          indicators       |-> indicatorsOf(checks, Len(checks)),
          fallback         |-> TRUE,
          local_analysis   |-> TRUE ]

\* o.f || d for a property that may be unset (numbers: 0 is falsy)
NumProp(o, f, d) == IF Has(o, f) /\ NonZero(o[f]) THEN o[f] ELSE d

\* the object built at the end of analyzeWithBackend from the parsed 2xx
\* body; the body may carry prediction, is_phishing, confidence,
\* confidence_score, threat_level, threat_type, model_version
normalizeResponse(result, features) ==
    LET isPhish == Has(result, "prediction") /\ result.prediction = "phish"
        conf    == NumProp(result, "confidence_score",
                           NumProp(result, "confidence", Dbl(0)))
    IN  [ prediction       |->
              StrProp(result, "prediction",
                      IF BoolProp(result, "is_phishing") THEN "phish" ELSE "legit"),
          confidence       |-> conf,
          confidence_score |-> conf,
          threat_level     |->
              StrProp(result, "threat_level",
                      determineThreatLevel(IF Has(result, "confidence_score")
                                           THEN result.confidence_score
                                           ELSE Undefined)),
          threatType       |-> StrProp(result, "threat_type", "phishing"),
          model_version    |-> StrProp(result, "model_version", "unknown"),
          urls_found       |-> 0,
          url_analysis     |-> Null,
          header_analysis  |-> Null,
          extracted_features |-> features ]
        @@ \* threat: result.prediction === 'phish' || result.is_phishing
        (IF isPhish THEN [threat |-> TRUE]
         ELSE IF Has(result, "is_phishing") THEN [threat |-> result.is_phishing]
         ELSE EmptyObject)

\* the early return of handleEmailAnalysis when the scanner is disabled
disabledResult ==
    [ threat |-> FALSE, prediction |-> "legit", confidence |-> Dbl(0),
      message |-> "Scanner disabled" ]

\* the return of the catch block of handleEmailAnalysis
analysisErrorResult(message, startTime, now_) ==
    [ threat |-> FALSE, prediction |-> "error", confidence |-> Dbl(0),
      error |-> message, fallback |-> TRUE,
      processing_time_ms |-> now_ - startTime ]

\* a threat test that looks at the prediction only (variant for C20)
isThreatResult_byPrediction(result) ==
    Has(result, "prediction") /\ result.prediction = "phish"

\* result.prediction === 'phish' || result.threat
isThreatResult(result) ==
    (Has(result, "prediction") /\ result.prediction = "phish")
        \/ BoolProp(result, "threat")

----------------------------------------------------------------------------
(* Settings, credentials, cache *)

\* settings that never switch the scanner off (variant for C14)
getSettings_alwaysEnabled(store) ==
    [ enabled              |-> TRUE,
      notificationsEnabled |->
          ~(Has(store, "notificationsEnabled") /\ store.notificationsEnabled = FALSE),
      apiKey               |-> StrProp(store, "apiKey", ""),
      apiEndpoint          |-> StrProp(store, "apiEndpoint", API_CONFIG.endpoint),
      userToken            |-> store.userToken,
      userId               |-> store.userId ]

\* the object getSettings resolves with, from the synchronized store
getSettings(store) ==
    [ enabled              |-> ~(Has(store, "enabled") /\ store.enabled = FALSE),
      notificationsEnabled |->
          ~(Has(store, "notificationsEnabled") /\ store.notificationsEnabled = FALSE),
      apiKey               |-> StrProp(store, "apiKey", ""),
      apiEndpoint          |-> StrProp(store, "apiEndpoint", API_CONFIG.endpoint),
      userToken            |-> store.userToken,
      userId               |-> store.userId ]

\* truthiness of a credential
Truthy(v) == v # Null /\ v # ""

\* a header that prefers the configured API key (variant for C12)
authHeader_keyFirst(token, settings) ==
    IF settings.apiKey # "" THEN "Bearer " \o settings.apiKey
    ELSE IF Truthy(token) THEN "Bearer " \o token
    ELSE "Bearer demo-key"

\* the Authorization header of analyzeWithBackend and handleFalsePositiveReport
authHeader(token, settings) ==
    IF Truthy(token) THEN "Bearer " \o token
    ELSE "Bearer " \o StrOr(settings.apiKey, "demo-key")

cacheContent(emailData) ==
    emailData.from \o emailData.subject \o emailData.bodyText

generateCacheKeyThrows(emailData) == btoaThrows(cacheContent(emailData))

generateCacheKey(emailData) == Substring0(btoa(cacheContent(emailData)), 32)

\* no result: null
NoResult == [none |-> TRUE]

\* what chrome.storage get(keys) yields from a store
storageGet(store, keys) == [k \in keys \cap DOMAIN store |-> store[k]]

\* a lookup that marks what it found as coming from the cache (variant
\* for C38)
getCachedResult_marked(data, key, now_) ==
    IF key \in DOMAIN data /\ now_ - data[key].timestamp < CACHE_TTL_MS
    THEN [fromCache |-> TRUE] @@ data[key].result
    ELSE NoResult

\* a lookup that ignores the age of the entry (variant for C5)
getCachedResult_anyAge(data, key, now_) ==
    IF key \in DOMAIN data THEN data[key].result ELSE NoResult

\* what getCachedResult resolves with, in the callback of its get: data is
\* what the get yielded, keyed by the cache key
getCachedResult(data, key, now_) ==
    IF key \in DOMAIN data /\ now_ - data[key].timestamp < CACHE_TTL_MS
    THEN data[key].result
    ELSE NoResult

\* a cacheResult that leaves an existing entry in place (variant for C15)
cacheResult_keepsFirst(cache_, key, result, now_) ==
    IF key \in DOMAIN cache_ THEN cache_
    ELSE [k \in DOMAIN cache_ \cup {key} |->
             IF k = key THEN [result |-> result, timestamp |-> now_] ELSE cache_[k]]

\* the store after cacheResult
cacheResult(cache_, key, result, now_) ==
    [k \in DOMAIN cache_ \cup {key} |->
        IF k = key THEN [result |-> result, timestamp |-> now_] ELSE cache_[k]]

\* a log without a cap (variant for C36)
logToHistory_uncapped(history, emailData, result, now_) ==
    Append(history, [ timestamp  |-> now_,
                      from       |-> emailData.from,
                      subject    |-> emailData.subject,
                      prediction |-> result.prediction ])

\* the analysisHistory that logToHistory writes, from the one it read
logToHistory(history, emailData, result, now_) ==
    LET entry == [ timestamp  |-> now_,
                   from       |-> emailData.from,
                   subject    |-> emailData.subject,
                   prediction |-> result.prediction ]
                 @@ (IF Has(result, "confidence_score")
                     THEN [confidence |-> result.confidence_score]
                     ELSE EmptyObject)
                 @@ (IF Has(emailData, "provider")
                     THEN [provider |-> emailData.provider]
                     ELSE EmptyObject)
        pushed == Append(history, entry)
    IN  IF Len(pushed) > ANALYSIS_HISTORY_CAP THEN Tail(pushed) ELSE pushed

----------------------------------------------------------------------------
(* Retry policy of analyzeWithBackend *)

\* one more attempt than configured (variant for C7)
mayRetry_oneMore(attempt) == attempt <= API_CONFIG.retryAttempts

\* attempt < API_CONFIG.retryAttempts
mayRetry(attempt) == attempt < API_CONFIG.retryAttempts

\* a constant delay (variant for C8)
retryWait_constant(attempt) == API_CONFIG.retryDelay

\* the argument of sleep before the next attempt
retryWait(attempt) == API_CONFIG.retryDelay * attempt

\* a catch block that never retries (variant for C9)
onFetchError_noRetry(errorName, attempt) == "local"

\* the catch block: "retry" (sleep, then the next attempt) or "local"
\* (return performLocalAnalysis)
onFetchError(errorName, attempt) ==
    IF errorName = "AbortError" /\ mayRetry(attempt) THEN "retry" ELSE "local"

\* a policy that retries every status that is not ok (variant for C32)
onHttpError_retriesAll(status, attempt) ==
    IF mayRetry(attempt) THEN "retry" ELSE "local"

\* a response that is not ok: 429 is retried while attempts remain, every
\* other status throws an Error that the catch block receives
onHttpError(status, attempt) ==
    IF status = 429 /\ mayRetry(attempt) THEN "retry"
    ELSE onFetchError("Error", attempt)

\* a 401 handled like any other status (variant for C3)
clearsSession_never(status) == FALSE

\* only a 401 clears the session
clearsSession(status) == status = 401

\* the response sent for analyzeEmail once handleEmailAnalysis settles
analyzeEmailResponse(settled) ==
    IF settled.fulfilled
    THEN [success |-> TRUE, result |-> settled.value]
    ELSE [success |-> FALSE, error |-> settled.value]

----------------------------------------------------------------------------
(* Bounds and inputs *)

\* analyzeEmail messages handled in one run
MaxCalls == 2

\* weight of the events of the environment in one run: a failed /analyze
\* attempt, a clock advance and a setAuth message weigh 1; an analyzeEmail
\* message after the first weighs 2, and 3 when it arrives while an earlier
\* invocation is still running
MaxEvents == 3

\* the updateStats messages of a run
MaxUpdates == 2
Updates == 1..MaxUpdates

\* the emailQuarantined messages of a run
MaxQuarantines == 2
Quarantines == 1..MaxQuarantines

\* the dashboardSync alarms of a run
MaxSyncs == 2
Syncs == 1..MaxSyncs

Calls == 1..MaxCalls

\* the amounts by which the clock advances between events
TickSteps == {1, CACHE_TTL_MS, CACHE_TTL_MS + 1}

\* an opened message, as the monitor reads it from the message view
EmailPhish ==
    [ from |-> "security@paypa1.xyz", fromName |-> "PayPal Support",
      subject |-> "Urgent: verify your account",
      body |-> "<a href=\"http://bit.ly/x\">login</a>", bodyText |-> "login",
      timestamp |-> 0, isReply |-> FALSE, attachments |-> <<"invoice.exe">>,
      spfPass |-> FALSE, dkimPass |-> FALSE, urls |-> <<"http://bit.ly/x">>,
      provider |-> "gmail" ]

\* a row of the inbox list, as the monitor reads it; the subject has a
\* character outside Latin-1
EmailUnicode ==
    [ from |-> "news@shop.example", fromName |-> "Shop",
      subject |-> "Sale €5", body |-> "today only", bodyText |-> "today only",
      timestamp |-> 0, isReply |-> FALSE, attachments |-> <<>>,
      isUnread |-> FALSE, dateText |-> "", provider |-> "gmail" ]

Emails == {EmailPhish, EmailUnicode}

\* three messages of the sender of EmailPhish whose subjects begin alike: a
\* lunch invitation, a voucher with a character outside Latin-1, and one
\* whose subject departs from the others at its fifth character
EmailLunch ==
    [EmailPhish EXCEPT !.fromName = "security", !.subject = "Urgent: lunch menu",
                       !.body = "see you at noon", !.bodyText = "see you at noon",
                       !.attachments = <<>>, !.urls = <<>>,
                       !.spfPass = TRUE, !.dkimPass = TRUE]
EmailVoucher == [EmailLunch EXCEPT !.subject = "Urgent: €5 voucher"]
EmailUrges == [EmailLunch EXCEPT !.subject = "Urges: lunch menu"]

KeyEmails == {EmailPhish, EmailLunch, EmailVoucher, EmailUrges}

\* extractFeatures and generateCacheKey on the inputs, computed once
featuresOf == [e \in Emails \cup KeyEmails |-> extractFeatures(e)]
cacheKeyThrowsOf == [e \in Emails \cup KeyEmails |-> generateCacheKeyThrows(e)]
cacheKeyOf ==
    [e \in Emails \cup KeyEmails |->
        IF generateCacheKeyThrows(e) THEN "" ELSE generateCacheKey(e)]

\* the credentials setAuth messages carry
Tokens == {"tok2"}
Users == {"u1"}

\* the parsed bodies of 2xx answers of /analyze
Bodies ==
    { [prediction |-> "phish", confidence |-> Dbl(95)],
      [prediction |-> "legit", is_phishing |-> TRUE, confidence |-> Dbl(60)],
      EmptyObject }

\* the statuses of answers of /analyze that are not ok
ErrorStatuses == {401, 429, 500}

----------------------------------------------------------------------------
(* State *)

(* chrome.storage operations take effect in the order in which they are    *)
(* issued: a set changes the store when it is issued, a get yields the     *)
(* store as it is when it is issued, and the callback of either runs in a  *)
(* later step. Timers fire at their expiry, in order of expiry.            *)

VARIABLES
    now,             \* Date.now()
    events,          \* weight of the environment events so far
    userToken,       \* module-level let userToken
    userId,          \* module-level let userId
    startup,         \* the chrome.storage.sync.get issued at load: what it
                     \* yields, and whether its callback has run
    syncStore,       \* chrome.storage.sync
    cache,           \* the cache_<key> entries of chrome.storage.local
    analysisHistory, \* the analysisHistory entry of chrome.storage.local
    notifications,   \* chrome.notifications.create calls
    call,            \* the handleEmailAnalysis invocations
    localStats,      \* the statistics entries of chrome.storage.local
    update,          \* the updateStatistics invocations
    evaluation,      \* an evaluation of the local scorer or the bucketing
    monitor,         \* a content-script monitor scanning one row
    quarantine,      \* the handleQuarantine invocations
    sweep,           \* the cacheCleanup alarm handler
    sync             \* the syncWithDashboard invocations

vars ==
    << now, events, userToken, userId, startup, syncStore, cache,
       analysisHistory, notifications, call, localStats, update, evaluation,
       monitor, quarantine, sweep, sync >>

\* the content script and the handler of its emailQuarantined message
contentVars == << monitor, quarantine >>

\* the alarm handlers
alarmVars == << sweep, sync >>

\* the state outside the analysis pipeline
elsewhere == << localStats, update, evaluation, contentVars, alarmVars >>

\* chrome.storage.sync as onInstalled leaves it
InstalledStore ==
    [ enabled |-> TRUE, autoScan |-> TRUE, notificationsEnabled |-> TRUE,
      autoQuarantine |-> TRUE, confidenceThreshold |-> Dbl(60), apiKey |-> "",
      apiEndpoint |-> API_CONFIG.endpoint, showSafeIndicators |-> FALSE,
      userToken |-> Null, userId |-> Null ]

\* chrome.storage.sync when the service worker starts: as installed, with
\* the scanner switched off, or with a session stored by an earlier run, an
\* API key entered and notifications off
InitStores ==
    { InstalledStore,
      [InstalledStore EXCEPT !.enabled = FALSE],
      [InstalledStore EXCEPT !.userToken = "tok1", !.userId = "u1",
                             !.notificationsEnabled = FALSE, !.apiKey = "key-123456"] }

NoEmail == [none |-> TRUE]

\* the statistics entries of chrome.storage.local as onInstalled leaves them
InstalledStats ==
    [ totalScanned |-> 0, threatsDetected |-> 0, emailsQuarantined |-> 0,
      lastScan |-> Null, scanHistory |-> <<>> ]

\* a monitor that has not begun to scan its row
IdleMonitor ==
    [ pc       |-> "idle",
      script   |-> "",         \* which content script it is
      response |-> NoResult,   \* what the callback of sendMessage received
      result   |-> NoResult,   \* what analyzeEmail resolved with
      settings |-> NoResult,   \* what this.getSettings() resolved with
      page     |-> NoResult,   \* the toolbar of the page at moveToQuarantine
      warning  |-> FALSE,      \* the row carries phishguard-warning
      moved    |-> FALSE,      \* the mail has left the inbox
      notices  |-> <<>>,       \* showQuarantineNotice calls
      sent     |-> <<>> ]      \* messages sent after analyzeEmail

\* a handleQuarantine invocation that has not been requested
IdleQuarantine == [ pc |-> "idle", stats |-> NoResult ]

\* the cacheCleanup handler between alarms
IdleSweep == [ pc |-> "idle", items |-> NoResult, issued |-> 0 ]

\* a syncWithDashboard invocation that has not been requested
IdleSync ==
    [ pc       |-> "idle",
      settings |-> NoResult,   \* what getSettings resolved with
      requests |-> <<>>,       \* the requests it has issued
      body     |-> NoResult ]  \* the parsed body of a 2xx answer

\* an updateStatistics invocation that has not been requested
IdleUpdate ==
    [ pc    |-> "idle",
      data  |-> NoResult,    \* request.data
      stats |-> NoResult ]   \* what the get yielded

\* a handleEmailAnalysis invocation that has not been requested
IdleCall ==
    [ pc        |-> "idle",
      emailData |-> NoEmail,   \* the argument
      startTime |-> 0,
      settings  |-> NoResult,  \* what getSettings read, then resolved with
      cacheKey  |-> "",
      cached    |-> NoResult,  \* what the get of getCachedResult yielded
      lookup    |-> NoResult,  \* what getCachedResult saw: [hit, stored, age]
      attempt   |-> 0,         \* the attempt parameter of analyzeWithBackend
      timer     |-> 0,         \* expiry of the armed abort or sleep timer, or 0
      body      |-> NoResult,  \* the parsed body of the 2xx response
      result    |-> NoResult,
      history   |-> <<>>,      \* what the get of logToHistory yielded
      requests  |-> <<>>,      \* the fetch calls made: [path, auth, at]
      outcomes  |-> <<>>,      \* how each /analyze fetch ended
      waits     |-> <<>>,      \* the sleep(ms) calls made
      notified  |-> FALSE,
      response  |-> NoResult,  \* the sendResponse argument
      statsSync |-> "",        \* how the fetch of /stats ended, if it did
      after     |-> {} ]       \* the invocations answered before this began

\* no content script is scanning, no emailQuarantined message is handled
NoContentScript ==
    /\ monitor = IdleMonitor
    /\ quarantine = [q \in Quarantines |-> IdleQuarantine]

\* no alarm handler is running
NoAlarm ==
    /\ sweep = IdleSweep
    /\ sync = [s \in Syncs |-> IdleSync]

Init ==
    /\ now = 0
    /\ events = 0
    /\ userToken = Null
    /\ userId = Null
    /\ syncStore \in InitStores
    /\ startup = [ pc |-> "issued", userToken |-> syncStore.userToken,
                   userId |-> syncStore.userId ]
    /\ cache = EmptyObject
    /\ analysisHistory = <<>>
    /\ notifications = <<>>
    /\ call = [h \in Calls |-> IdleCall]
    /\ localStats = InstalledStats
    /\ update = [u \in Updates |-> IdleUpdate]
    /\ evaluation = NoResult
    /\ NoContentScript
    /\ NoAlarm

\* a timer of the call is armed (setTimeout, not yet fired or cleared)
TimerArmed(c) == c.timer # 0

\* no armed timer expires before t
NoTimerBefore(t) == \A h \in Calls : TimerArmed(call[h]) => call[h].timer >= t

----------------------------------------------------------------------------
(* Environment *)

\* an event of the environment of the given weight, within the bound
Event(weight) ==
    /\ events + weight <= MaxEvents
    /\ events' = events + weight

\* time passes; armed timers are punctual
Tick(d) ==
    /\ Event(1)
    /\ NoTimerBefore(now + d)
    /\ now' = now + d
    /\ UNCHANGED << elsewhere, userToken, userId, startup, syncStore, cache,
                    analysisHistory, notifications, call >>

\* the callback of the get issued at load
StartupCallback ==
    /\ startup.pc = "issued"
    /\ userToken' = startup.userToken
    /\ userId' = startup.userId
    /\ startup' = [startup EXCEPT !.pc = "done"]
    /\ UNCHANGED << elsewhere, now, events, syncStore, cache, analysisHistory,
                    notifications, call >>

\* onMessage setAuth
SetAuth(token, uid) ==
    /\ Event(1)
    /\ userToken' = token
    /\ userId' = uid
    /\ syncStore' = [syncStore EXCEPT !.userToken = token, !.userId = uid]
    /\ UNCHANGED << elsewhere, now, startup, cache, analysisHistory, notifications,
                    call >>

----------------------------------------------------------------------------
(* handleEmailAnalysis, one action per resumption of the async function *)

Fulfilled(v) == [fulfilled |-> TRUE, value |-> v]
Rejected(v) == [fulfilled |-> FALSE, value |-> v]

\* a catch block that rethrows (variant for C1)
handleEmailAnalysisCatch_rethrows(message, startTime, now_) ==
    Rejected(message)

\* the catch block of handleEmailAnalysis: it returns, so the promise is
\* fulfilled
handleEmailAnalysisCatch(message, startTime, now_) ==
    Fulfilled(analysisErrorResult(message, startTime, now_))

\* handleEmailAnalysis settles and the onMessage listener answers
Settle(c, settled) ==
    [c EXCEPT !.pc = "done", !.response = analyzeEmailResponse(settled)]

\* one fetch of /analyze: the header is chosen, the abort timer is armed
IssueAnalyze(c, attempt, token, now_) ==
    [c EXCEPT !.pc = "fetch",
              !.attempt = attempt,
              !.timer = now_ + API_CONFIG.timeout,
              !.requests = Append(@, [ path |-> "/analyze",
                                       auth |-> authHeader(token, c.settings),
                                       at |-> now_ ])]

\* analyzeWithBackend has returned result: the processing time is stamped
\* and cacheResult is called (an abort timer left behind by a fetch that
\* rejected acts on a settled request: it counts as cleared)
Returned(c, result, now_) ==
    [c EXCEPT !.pc = "cacheSet",
              !.timer = 0,
              !.result = [processing_time_ms |-> now_ - c.startTime] @@ result]

\* sleep(retryWait(attempt)) before the next attempt
Sleep(c, now_) ==
    [c EXCEPT !.pc = "sleep",
              !.waits = Append(@, retryWait(c.attempt)),
              !.timer = now_ + retryWait(c.attempt)]

\* onMessage analyzeEmail: handleEmailAnalysis starts and awaits getSettings
Start(h, emailData) ==
    /\ call[h].pc = "idle"
    /\ h > 1 => call[h - 1].pc # "idle"
    /\ IF h = 1
       THEN UNCHANGED events
       ELSE Event(IF \A g \in Calls : call[g].pc \in {"idle", "done"}
                  THEN 2 ELSE 3)
    /\ call' = [call EXCEPT ![h] = [@ EXCEPT !.pc = "getSettings",
                                             !.emailData = emailData,
                                             !.startTime = now,
                                             !.settings = syncStore,
                                             !.after = { g \in Calls :
                                                 call[g].pc = "done" }]]
    /\ UNCHANGED << elsewhere, now, userToken, userId, startup, syncStore,
                    cache, analysisHistory, notifications >>

\* getSettings resolves: the enabled check, generateCacheKey, then
\* getCachedResult issues its get
SettingsCallback(h) ==
    LET c == call[h]
        settings == getSettings(c.settings)
        key == cacheKeyOf[c.emailData]
    IN  /\ c.pc = "getSettings"
        /\ call' = [call EXCEPT ![h] =
              IF ~settings.enabled
              THEN Settle([c EXCEPT !.settings = settings],
                          Fulfilled(disabledResult))
              ELSE IF cacheKeyThrowsOf[c.emailData]
              THEN Settle([c EXCEPT !.settings = settings],
                          handleEmailAnalysisCatch("InvalidCharacterError",
                                                   c.startTime, now))
              ELSE [c EXCEPT !.pc = "getCached", !.settings = settings,
                             !.cacheKey = key,
                             !.cached = storageGet(cache, {key})]]
        /\ UNCHANGED << elsewhere, now, events, userToken, userId, startup, syncStore,
                        cache, analysisHistory, notifications >>

\* the callback of that get: a hit is returned, a miss goes on to
\* extractFeatures and the first attempt of analyzeWithBackend
CachedCallback(h) ==
    LET c == call[h]
        cached == getCachedResult(c.cached, c.cacheKey, now)
        seen == [ hit |-> cached # NoResult,
                  stored |-> c.cacheKey \in DOMAIN c.cached,
                  age |-> IF c.cacheKey \in DOMAIN c.cached
                          THEN now - c.cached[c.cacheKey].timestamp ELSE 0 ]
    IN  /\ c.pc = "getCached"
        /\ call' = [call EXCEPT ![h] =
              IF cached # NoResult
              THEN Settle([c EXCEPT !.lookup = seen], Fulfilled(cached))
              ELSE IssueAnalyze(
                       [c EXCEPT !.lookup = seen,
                                 !.emailData = IF Truthy(userId)
                                               THEN [user_id |-> userId] @@ @
                                               ELSE @],
                       1, userToken, now)]
        /\ UNCHANGED << elsewhere, now, events, userToken, userId, startup, syncStore,
                        cache, analysisHistory, notifications >>

\* analyzeWithBackend returns result to handleEmailAnalysis at time now_
ReturnToAnalysis(h, c, result, now_) ==
    LET d == Returned(c, result, now_)
    IN  /\ call' = [call EXCEPT ![h] = d]
        /\ cache' = cacheResult(cache, c.cacheKey, d.result, now_)

\* features that depend on whether a call was answered before (variant
\* for C27)
Features_afterEarlierCall(c) ==
    LET features == featuresOf[[f \in DOMAIN c.emailData \ {"user_id"} |-> c.emailData[f]]]
    IN  IF c.after = {} THEN features
        ELSE [features EXCEPT !.has_suspicious_tld = 0, !.has_urgent_keywords = 0]

\* the features handleEmailAnalysis extracted for the call (before it adds
\* user_id to emailData)
Features(c) ==
    featuresOf[[f \in DOMAIN c.emailData \ {"user_id"} |-> c.emailData[f]]]

\* analyzeWithBackend goes on after a failed attempt, at time now_
AfterFailure(h, c, decision, now_) ==
    IF decision = "retry"
    THEN /\ call' = [call EXCEPT ![h] = Sleep(c, now_)]
         /\ UNCHANGED cache
    ELSE ReturnToAnalysis(h, c, performLocalAnalysis(Features(c)), now_)

\* fetch resolves with a response that is not ok
FetchStatus(h, status) ==
    LET c == [call[h] EXCEPT !.outcomes = Append(@, ToString(status))]
    IN  /\ call[h].pc = "fetch"
        /\ IF clearsSession(status)
           THEN /\ userToken' = Null
                /\ userId' = Null
                /\ syncStore' = [syncStore EXCEPT !.userToken = Null,
                                                  !.userId = Null]
           ELSE UNCHANGED << userToken, userId, syncStore >>
        /\ AfterFailure(h, c, onHttpError(status, c.attempt), now)
        /\ Event(1)
        /\ UNCHANGED << elsewhere, now, startup, analysisHistory, notifications >>

\* fetch resolves with an ok response: the timer is cleared, response.json()
\* is awaited
FetchOk(h) ==
    /\ call[h].pc = "fetch"
    /\ call' = [call EXCEPT ![h] = [@ EXCEPT !.pc = "json",
                                             !.timer = 0,
                                             !.outcomes = Append(@, "ok")]]
    /\ UNCHANGED << elsewhere, now, events, userToken, userId, startup, syncStore,
                    cache, analysisHistory, notifications >>

\* fetch rejects with a network error
FetchRejects(h) ==
    LET c == [call[h] EXCEPT !.outcomes = Append(@, "network error")]
    IN  /\ call[h].pc = "fetch"
        /\ AfterFailure(h, c, onFetchError("TypeError", c.attempt), now)
        /\ Event(1)
        /\ UNCHANGED << elsewhere, now, userToken, userId, startup, syncStore, analysisHistory, notifications >>

\* the abort timer expires: fetch rejects with an AbortError
AbortFires(h) ==
    LET c == [call[h] EXCEPT !.outcomes = Append(@, "timeout")]
    IN  /\ call[h].pc = "fetch"
        /\ NoTimerBefore(call[h].timer)
        /\ now' = call[h].timer
        /\ AfterFailure(h, c, onFetchError("AbortError", c.attempt), now')
        /\ Event(1)
        /\ UNCHANGED << elsewhere, userToken, userId, startup, syncStore,
                        analysisHistory, notifications >>

\* response.json() resolves with the parsed body
JsonResolves(h, body) ==
    LET c == [call[h] EXCEPT !.body = body]
    IN  /\ c.pc = "json"
        /\ ReturnToAnalysis(h, c, normalizeResponse(body, Features(c)), now)
        /\ UNCHANGED << elsewhere, now, events, userToken, userId, startup, syncStore, analysisHistory, notifications >>

\* response.json() rejects: the body is not JSON
JsonRejects(h) ==
    LET c == [call[h] EXCEPT !.outcomes = [@ EXCEPT ![Len(@)] = "malformed"]]
    IN  /\ call[h].pc = "json"
        /\ AfterFailure(h, c, onFetchError("SyntaxError", c.attempt), now)
        /\ Event(1)
        /\ UNCHANGED << elsewhere, now, userToken, userId, startup, syncStore, analysisHistory, notifications >>

\* the sleep timer expires: the next attempt is made
SleepFires(h) ==
    LET c == call[h]
    IN  /\ c.pc = "sleep"
        /\ NoTimerBefore(c.timer)
        /\ now' = c.timer
        /\ call' = [call EXCEPT ![h] =
                        IssueAnalyze(c, c.attempt + 1, userToken, now')]
        /\ UNCHANGED << elsewhere, events, userToken, userId, startup, syncStore,
                        cache, analysisHistory, notifications >>

\* cacheResult resolves: the notification, then logToHistory issues its get
CacheSetCallback(h) ==
    LET c == call[h]
        notify == isThreatResult(c.result) /\ c.settings.notificationsEnabled
    IN  /\ c.pc = "cacheSet"
        /\ call' = [call EXCEPT ![h] = [c EXCEPT !.pc = "logCallback",
                                                 !.notified = notify,
                                                 !.history = analysisHistory]]
        /\ notifications' =
              IF notify
              THEN Append(notifications,
                          [emailData |-> c.emailData, result |-> c.result])
              ELSE notifications
        /\ UNCHANGED << elsewhere, now, events, userToken, userId, startup, syncStore, cache, analysisHistory >>

\* the callback of that get: push, shift, set
LogCallback(h) ==
    LET c == call[h]
    IN  /\ c.pc = "logCallback"
        /\ analysisHistory' = logToHistory(c.history, c.emailData, c.result, now)
        /\ call' = [call EXCEPT ![h] = [c EXCEPT !.pc = "logSet"]]
        /\ UNCHANGED << elsewhere, now, events, userToken, userId, startup, syncStore, cache, notifications >>

\* logToHistory resolves: with a session, syncDetectionWithDashboard is
\* awaited, which awaits getSettings; without, the result is returned
LogSetCallback(h) ==
    LET c == call[h]
    IN  /\ c.pc = "logSet"
        /\ call' = [call EXCEPT ![h] =
              IF Truthy(userToken) /\ Truthy(userId)
              THEN [c EXCEPT !.pc = "syncSettings"]
              ELSE Settle(c, Fulfilled(c.result))]
        /\ UNCHANGED << elsewhere, now, events, userToken, userId, startup, syncStore, cache, analysisHistory, notifications >>

\* getSettings of syncDetectionWithDashboard resolves: fetch of /stats, with
\* no abort signal
SyncSettingsCallback(h) ==
    LET c == call[h]
    IN  /\ c.pc = "syncSettings"
        /\ call' = [call EXCEPT ![h] =
              [c EXCEPT !.pc = "statsFetch",
                        !.requests = Append(@, [ path |-> "/stats",
                                                 auth |-> "Bearer " \o userToken,
                                                 at |-> now ])]]
        /\ UNCHANGED << elsewhere, now, events, userToken, userId, startup, syncStore, cache, analysisHistory, notifications >>

\* a sync whose failure reaches the caller (variant for C34)
afterStatsSync_propagates(c, resolved) ==
    IF resolved
    THEN Settle([c EXCEPT !.statsSync = "resolved"], Fulfilled(c.result))
    ELSE Settle([c EXCEPT !.statsSync = "rejected"],
                handleEmailAnalysisCatch("Failed to fetch", c.startTime, c.startTime))

\* syncDetectionWithDashboard is over, its error caught and logged:
\* handleEmailAnalysis returns the result
afterStatsSync(c, resolved) ==
    Settle([c EXCEPT !.statsSync = IF resolved THEN "resolved" ELSE "rejected"],
           Fulfilled(c.result))

\* the fetch of /stats resolves (with any status) or rejects
StatsSettles(h, resolved) ==
    LET c == call[h]
    IN  /\ c.pc = "statsFetch"
        /\ resolved \in BOOLEAN
        /\ call' = [call EXCEPT ![h] = afterStatsSync(c, resolved)]
        /\ UNCHANGED << elsewhere, now, events, userToken, userId, startup, syncStore, cache, analysisHistory, notifications >>

----------------------------------------------------------------------------
(* Specification *)

Next ==
    \/ \E d \in TickSteps : Tick(d)
    \/ StartupCallback
    \/ \E token \in Tokens, uid \in Users : SetAuth(token, uid)
    \/ \E h \in Calls, emailData \in Emails : Start(h, emailData)
    \/ \E h \in Calls : SettingsCallback(h)
    \/ \E h \in Calls : CachedCallback(h)
    \/ \E h \in Calls, status \in ErrorStatuses : FetchStatus(h, status)
    \/ \E h \in Calls : FetchOk(h)
    \/ \E h \in Calls : FetchRejects(h)
    \/ \E h \in Calls : AbortFires(h)
    \/ \E h \in Calls, body \in Bodies : JsonResolves(h, body)
    \/ \E h \in Calls : JsonRejects(h)
    \/ \E h \in Calls : SleepFires(h)
    \/ \E h \in Calls : CacheSetCallback(h)
    \/ \E h \in Calls : LogCallback(h)
    \/ \E h \in Calls : LogSetCallback(h)
    \/ \E h \in Calls : SyncSettingsCallback(h)
    \/ \E h \in Calls, resolved \in BOOLEAN : StatsSettles(h, resolved)

Spec == Init /\ [][Next]_vars

\* the state of the analysis pipeline
pipeline ==
    << now, events, userToken, userId, startup, syncStore, cache,
       analysisHistory, notifications, call >>

\* the analysis pipeline at rest, as installed
NoAnalysis ==
    /\ now = 0
    /\ events = 0
    /\ userToken = Null
    /\ userId = Null
    /\ syncStore = InstalledStore
    /\ startup = [ pc |-> "issued", userToken |-> Null, userId |-> Null ]
    /\ cache = EmptyObject
    /\ analysisHistory = <<>>
    /\ notifications = <<>>
    /\ call = [h \in Calls |-> IdleCall]

----------------------------------------------------------------------------
(* updateStatistics: onMessage updateStats issues the get; its callback    *)
(* computes the new entries from what the get yielded and issues the set   *)

SCAN_HISTORY_CAP == 100

\* the keys the get of updateStatistics asks for
StatsKeys ==
    { "totalScanned", "threatsDetected", "emailsQuarantined", "lastScan",
      "scanHistory", "providerStats" }

\* o.f || 0 for a count that may be unset
CountProp(o, f) == IF Has(o, f) THEN o[f] ELSE 0

\* providerStats after the callback has counted the scan
countProvider(providerStats, provider, isThreat) ==
    LET entry == IF Has(providerStats, provider) THEN providerStats[provider]
                 ELSE [scanned |-> 0, threats |-> 0]
        counted == [ scanned |-> entry.scanned + 1,
                     threats |-> entry.threats + (IF isThreat THEN 1 ELSE 0) ]
    IN  [p \in DOMAIN providerStats \cup {provider} |->
            IF p = provider THEN counted ELSE providerStats[p]]

\* a history that gives up its newest entry at the cap (variant for C24)
pushScan_dropsNewest(scanHistory, entry) ==
    LET pushed == Append(scanHistory, entry)
    IN  IF Len(pushed) > SCAN_HISTORY_CAP THEN SubSeq(pushed, 1, SCAN_HISTORY_CAP)
        ELSE pushed

\* scanHistory after push and shift
pushScan(scanHistory, entry) ==
    LET pushed == Append(scanHistory, entry)
    IN  IF Len(pushed) > SCAN_HISTORY_CAP THEN Tail(pushed) ELSE pushed

\* the object the callback of updateStatistics hands to the set
updated(stats, data, now_) ==
    LET provider == StrProp(data, "provider", "unknown")
        isThreat == BoolProp(data, "isThreat")
    IN  [ totalScanned      |-> CountProp(stats, "totalScanned") + 1,
          threatsDetected   |-> CountProp(stats, "threatsDetected")
                                   + (IF isThreat THEN 1 ELSE 0),
          emailsQuarantined |-> CountProp(stats, "emailsQuarantined"),
          lastScan          |-> now_,
          providerStats     |->
              countProvider(IF Has(stats, "providerStats") THEN stats.providerStats
                            ELSE EmptyObject, provider, isThreat),
          scanHistory       |->
              pushScan(IF Has(stats, "scanHistory") THEN stats.scanHistory ELSE <<>>,
                       [timestamp |-> now_, threat |-> isThreat,
                        provider |-> provider]) ]

\* chrome.storage.local.set(items) on the statistics entries
storageSet(store, items) == items @@ store

\* request.data of the updateStats messages the content scripts send
StatsData ==
    { [isThreat |-> t, provider |-> "gmail"] : t \in BOOLEAN }
        \cup { [isThreat |-> t] : t \in BOOLEAN }

\* onMessage updateStats: updateStatistics issues its get, sendResponse
UpdateStats(u, data) ==
    /\ update[u].pc = "idle"
    /\ u > 1 => update[u - 1].pc # "idle"
    /\ update' = [update EXCEPT ![u] = [ pc |-> "get", data |-> data,
                                         stats |-> storageGet(localStats, StatsKeys) ]]
    /\ UNCHANGED << pipeline, localStats, evaluation, contentVars, alarmVars >>

\* the callback of the get: the new entries are computed and set
StatsCallback(u) ==
    /\ update[u].pc = "get"
    /\ localStats' = storageSet(localStats, updated(update[u].stats, update[u].data, now))
    /\ update' = [update EXCEPT ![u].pc = "set"]
    /\ UNCHANGED << pipeline, evaluation, contentVars, alarmVars >>

\* the callback of the set: the promise of updateStatistics resolves
StatsSetCallback(u) ==
    /\ update[u].pc = "set"
    /\ update' = [update EXCEPT ![u].pc = "done"]
    /\ UNCHANGED << pipeline, localStats, evaluation, contentVars, alarmVars >>

StatsInit ==
    /\ NoAnalysis
    /\ localStats = InstalledStats
    /\ update = [u \in Updates |-> IdleUpdate]
    /\ evaluation = NoResult
    /\ NoContentScript
    /\ NoAlarm

StatsNext ==
    \/ Tick(1)
    \/ \E u \in Updates, data \in StatsData : UpdateStats(u, data)
    \/ \E u \in Updates : StatsCallback(u)
    \/ \E u \in Updates : StatsSetCallback(u)

StatsSpec == StatsInit /\ [][StatsNext]_vars

----------------------------------------------------------------------------
(* updateStats messages one after the other: each arrives when the         *)
(* updateStatistics of the one before has completed                        *)

MaxRecords == 102

\* the providers the content scripts name
Providers == << "gmail", "outlook", "yahoo" >>

\* request.data of the k-th message: every fourth scan is a threat, the
\* providers take turns
Arrival(k) ==
    [ isThreat |-> (k % 4 = 0), provider |-> Providers[(k % 3) + 1] ]

\* the k-th message arrives, one millisecond after the one before
Record ==
    /\ update[1].pc \in {"idle", "done"}
    /\ now < MaxRecords
    /\ now' = now + 1
    /\ update' = [update EXCEPT ![1] = [ pc |-> "get", data |-> Arrival(now + 1),
                                         stats |-> storageGet(localStats, StatsKeys) ]]
    /\ UNCHANGED << events, userToken, userId, startup, syncStore, cache,
                    analysisHistory, notifications, call, localStats, evaluation,
                    contentVars, alarmVars >>

HistoryNext ==
    \/ Record
    \/ StatsCallback(1)
    \/ StatsSetCallback(1)

HistorySpec == StatsInit /\ [][HistoryNext]_vars

----------------------------------------------------------------------------
(* Evaluations of performLocalAnalysis and determineThreatLevel *)

\* the values of num_external_links around the threshold of the scorer
LinkCounts == {0, 5, 6}

\* the properties of the features object that performLocalAnalysis reads
FeatureVectors ==
    [ has_suspicious_tld         : {0, 1},
      has_urgent_keywords        : {0, 1},
      has_financial_keywords     : {0, 1},
      has_shortened_urls         : {0, 1},
      has_display_name_mismatch  : {0, 1},
      has_suspicious_attachments : {0, 1},
      num_external_links         : LinkCounts,
      has_spf_pass               : BOOLEAN,
      has_dkim_pass              : BOOLEAN ]

\* confidences: the hundredths of [0, 1] and the sums next to a boundary
\* that the scorer produces (0.8999999999999999, 0.7000000000000001,
\* 0.44999999999999996)
Confidences ==
    { Dbl(e) : e \in 0..100 }
        \cup { fadd(fadd(Dbl(30), Dbl(40)), Dbl(20)),
               fadd(fadd(Dbl(20), Dbl(35)), Dbl(15)),
               fadd(Dbl(30), Dbl(15)) }

\* performLocalAnalysis(features)
Score ==
    /\ evaluation.pc = "features"
    /\ evaluation' = [evaluation EXCEPT
                         !.pc = "scored",
                         !.output = performLocalAnalysis(evaluation.input)]
    /\ UNCHANGED << pipeline, localStats, update, contentVars, alarmVars >>

\* determineThreatLevel of two confidences, the first at most the second
Bucket ==
    /\ evaluation.pc = "confidences"
    /\ evaluation' = [evaluation EXCEPT
                         !.pc = "bucketed",
                         !.output = [ lo |-> determineThreatLevel(evaluation.input.lo),
                                      hi |-> determineThreatLevel(evaluation.input.hi) ]]
    /\ UNCHANGED << pipeline, localStats, update, contentVars, alarmVars >>

ScorerInit ==
    /\ NoAnalysis
    /\ NoContentScript
    /\ NoAlarm
    /\ localStats = InstalledStats
    /\ update = [u \in Updates |-> IdleUpdate]
    /\ evaluation \in
          { [pc |-> "features", input |-> f, output |-> NoResult] :
                f \in FeatureVectors }
          \cup { [pc |-> "confidences", input |-> [lo |-> a, hi |-> b],
                  output |-> NoResult] :
                    <<a, b>> \in { p \in Confidences \X Confidences : fge(p[2], p[1]) } }

ScorerNext ==
    \/ Score
    \/ Bucket

ScorerSpec == ScorerInit /\ [][ScorerNext]_vars

----------------------------------------------------------------------------
(* The Gmail monitor scanning one row (content script), and                *)
(* handleQuarantine, which handles its emailQuarantined message            *)

\* the two Gmail content scripts of the repository
Scripts == { "dist/content-gmail.js", "unnamed/part_002" }

\* what analyzeEmail resolves with when there is nothing to pass on
SafeDefault == [ prediction |-> "safe", confidence_score |-> Dbl(0), threat |-> FALSE ]

\* what the promise of GmailMonitor.analyzeEmail resolves with; response is
\* NoResult when the callback got none (or lastError was set)
analyzeEmailResolves(script, response) ==
    IF script = "dist/content-gmail.js"
    THEN IF response = NoResult THEN SafeDefault ELSE response
    ELSE IF response = NoResult THEN SafeDefault
         ELSE IF response.success /\ Has(response, "result") THEN response.result
         ELSE SafeDefault

\* EmailMonitorBase.getSettings, the entries handleAnalysisResult reads
monitorSettings(store) ==
    [ autoQuarantine      |-> ~(Has(store, "autoQuarantine") /\ store.autoQuarantine = FALSE),
      confidenceThreshold |-> NumProp(store, "confidenceThreshold", Dbl(60)),
      showSafeIndicators  |->
          ~(Has(store, "showSafeIndicators") /\ store.showSafeIndicators = FALSE) ]

\* result.prediction === 'phish' || result.threat, in the monitor
isPhishing(result) ==
    (Has(result, "prediction") /\ result.prediction = "phish")
        \/ BoolProp(result, "threat")

\* a quarantine condition that includes the threshold (variant for C21)
wantsQuarantine_atThreshold(result, settings) ==
    /\ isPhishing(result)
    /\ settings.autoQuarantine
    /\ Has(result, "confidence_score")
    /\ fge(result.confidence_score, settings.confidenceThreshold)

\* isPhishing && settings.autoQuarantine
\*            && result.confidence_score > settings.confidenceThreshold
wantsQuarantine(result, settings) ==
    /\ isPhishing(result)
    /\ settings.autoQuarantine
    /\ Has(result, "confidence_score")
    /\ fgt(result.confidence_score, settings.confidenceThreshold)

\* the data of the updateStats message of scanEmailRow; an undefined
\* isThreat is not transmitted
updateStatsData(result) ==
    IF (Has(result, "prediction") /\ result.prediction = "phish") \/ Has(result, "threat")
    THEN [ isThreat |-> isPhishing(result), provider |-> "gmail" ]
    ELSE [ provider |-> "gmail" ]

\* the toolbar of the page when moveToQuarantine runs: the Report spam
\* button, and whether the page acts on the synthetic "!" key event
Pages ==
    [ spamButton : {"absent", "disabled", "enabled"}, shortcut : BOOLEAN ]

\* moveToQuarantine: the notice shown, whether emailQuarantined is sent,
\* and whether the mail has left the inbox
moveToQuarantine(page) ==
    IF page.spamButton = "enabled"
    THEN [ notice |-> "Email moved to Spam", sends |-> TRUE, moved |-> TRUE ]
    ELSE [ notice |-> "Email reported as spam", sends |-> TRUE,
           moved |-> page.shortcut ]

\* feature vectors for the results the monitor receives: no indicator,
\* TLD and urgent (0.5), attachment and failed authentication
\* (0.6000000000000001), TLD and mismatch (0.65), every indicator (1.0)
QuietFeatures ==
    [ has_suspicious_tld |-> 0, has_urgent_keywords |-> 0,
      has_financial_keywords |-> 0, has_shortened_urls |-> 0,
      has_display_name_mismatch |-> 0, has_suspicious_attachments |-> 0,
      num_external_links |-> 0, has_spf_pass |-> TRUE, has_dkim_pass |-> TRUE ]

SampleFeatures ==
    { QuietFeatures,
      [QuietFeatures EXCEPT !.has_suspicious_tld = 1, !.has_urgent_keywords = 1],
      [QuietFeatures EXCEPT !.has_suspicious_attachments = 1,
                            !.has_spf_pass = FALSE, !.has_dkim_pass = FALSE],
      [QuietFeatures EXCEPT !.has_suspicious_tld = 1, !.has_display_name_mismatch = 1],
      [QuietFeatures EXCEPT !.has_suspicious_tld = 1, !.has_urgent_keywords = 1,
                            !.has_financial_keywords = 1, !.has_shortened_urls = 1,
                            !.has_display_name_mismatch = 1,
                            !.has_suspicious_attachments = 1,
                            !.num_external_links = 6,
                            !.has_spf_pass = FALSE, !.has_dkim_pass = FALSE] }

\* the results handleEmailAnalysis returns: from the local scorer, from
\* the remote service, with the scanner disabled, from its catch block
AnalysisResults ==
    { [processing_time_ms |-> 0] @@ performLocalAnalysis(f) : f \in SampleFeatures }
        \cup { [processing_time_ms |-> 0] @@ normalizeResponse(b, featuresOf[EmailPhish]) :
                  b \in Bodies }
        \cup { disabledResult, analysisErrorResult("InvalidCharacterError", 0, 0) }

\* what the callback of sendMessage receives for analyzeEmail: nothing, the
\* failure response of the onMessage handler, or a result
Responses ==
    { NoResult, [success |-> FALSE, error |-> "Analysis failed"] }
        \cup { [success |-> TRUE, result |-> r] : r \in AnalysisResults }

\* chrome.storage.sync as the monitor finds it: as installed, with
\* auto-quarantine off, or with a threshold of 0.9
MonitorStores ==
    { InstalledStore,
      [InstalledStore EXCEPT !.autoQuarantine = FALSE],
      [InstalledStore EXCEPT !.confidenceThreshold = Dbl(90)] }

\* scanEmailRow: the row is new, analyzeEmail sends its message
ScanEmailRow(script) ==
    /\ monitor.pc = "idle"
    /\ monitor' = [monitor EXCEPT !.pc = "analyze", !.script = script]
    /\ UNCHANGED << pipeline, localStats, update, evaluation, quarantine, alarmVars >>

\* the callback of sendMessage: analyzeEmail resolves, handleAnalysisResult
\* begins and awaits getSettings
AnalyzeEmailCallback(response) ==
    /\ monitor.pc = "analyze"
    /\ monitor' = [monitor EXCEPT
                      !.pc = "settings",
                      !.response = response,
                      !.result = analyzeEmailResolves(monitor.script, response),
                      !.settings = syncStore]
    /\ UNCHANGED << pipeline, localStats, update, evaluation, quarantine, alarmVars >>

\* getSettings resolves: the marker, the quarantine timer, then the
\* updateStats message of scanEmailRow
HandleAnalysisResult ==
    LET settings == monitorSettings(monitor.settings)
        quarantines == wantsQuarantine(monitor.result, settings)
    IN  /\ monitor.pc = "settings"
        /\ monitor' = [monitor EXCEPT
                          !.pc = IF quarantines THEN "timer" ELSE "done",
                          !.settings = settings,
                          !.warning = isPhishing(monitor.result),
                          !.sent = Append(@, [ action |-> "updateStats",
                                               data |-> updateStatsData(monitor.result) ])]
        /\ UNCHANGED << pipeline, localStats, update, evaluation, quarantine, alarmVars >>

\* the quarantine timer fires: moveToQuarantine runs to its end
MoveToQuarantine(page) ==
    LET done == moveToQuarantine(page)
    IN  /\ monitor.pc = "timer"
        /\ monitor' = [monitor EXCEPT
                          !.pc = "done",
                          !.page = page,
                          !.moved = done.moved,
                          !.notices = Append(@, done.notice),
                          !.sent = IF done.sends
                                   THEN Append(@, [ action |-> "emailQuarantined",
                                                    data |-> [provider |-> "gmail"] ])
                                   ELSE @]
        /\ UNCHANGED << pipeline, localStats, update, evaluation, quarantine, alarmVars >>

\* the emailQuarantined messages the monitor has sent
QuarantinedSent ==
    Cardinality({ i \in 1..Len(monitor.sent) : monitor.sent[i].action = "emailQuarantined" })

\* onMessage emailQuarantined: handleQuarantine issues its get
EmailQuarantined(q) ==
    /\ quarantine[q].pc = "idle"
    /\ q > 1 => quarantine[q - 1].pc # "idle"
    /\ Cardinality({ r \in Quarantines : quarantine[r].pc # "idle" }) < QuarantinedSent
    /\ quarantine' = [quarantine EXCEPT ![q] =
                         [ pc |-> "get",
                           stats |-> storageGet(localStats, {"emailsQuarantined"}) ]]
    /\ UNCHANGED << pipeline, localStats, update, evaluation, monitor, alarmVars >>

\* the callback of that get: emailsQuarantined is set to what was read, plus 1
QuarantineCallback(q) ==
    /\ quarantine[q].pc = "get"
    /\ localStats' = storageSet(localStats,
                        [ emailsQuarantined |->
                              CountProp(quarantine[q].stats, "emailsQuarantined") + 1 ])
    /\ quarantine' = [quarantine EXCEPT ![q].pc = "done"]
    /\ UNCHANGED << pipeline, update, evaluation, monitor, alarmVars >>

MonitorInit ==
    /\ now = 0
    /\ events = 0
    /\ userToken = Null
    /\ userId = Null
    /\ syncStore \in MonitorStores
    /\ startup = [ pc |-> "issued", userToken |-> Null, userId |-> Null ]
    /\ cache = EmptyObject
    /\ analysisHistory = <<>>
    /\ notifications = <<>>
    /\ call = [h \in Calls |-> IdleCall]
    /\ localStats = InstalledStats
    /\ update = [u \in Updates |-> IdleUpdate]
    /\ evaluation = NoResult
    /\ NoContentScript
    /\ NoAlarm

MonitorNext ==
    \/ \E script \in Scripts : ScanEmailRow(script)
    \/ \E response \in Responses : AnalyzeEmailCallback(response)
    \/ HandleAnalysisResult
    \/ \E page \in Pages : MoveToQuarantine(page)
    \/ \E q \in Quarantines : EmailQuarantined(q)
    \/ \E q \in Quarantines : QuarantineCallback(q)

MonitorSpec == MonitorInit /\ [][MonitorNext]_vars

----------------------------------------------------------------------------
(* The cacheCleanup alarm beside the analysis pipeline.  The cache_ keys   *)
(* of chrome.storage.local are the variable cache; the other keys of the   *)
(* store are localStats, analysisHistory and the notification data.        *)
(* Times are milliseconds since the worker loaded, so the timestamp of an  *)
(* entry written at time 0 stands for a Date.now() that is not zero.       *)

\* the keys the callback collects: cache entries of the items it was
\* handed that are older than an hour at the time the callback runs
keysToRemove(items, now_) ==
    { k \in DOMAIN items : now_ - items[k].timestamp > CACHE_TTL_MS }

\* chrome.storage.local.remove(keys)
storageRemove(store, keys) == [k \in DOMAIN store \ keys |-> store[k]]

\* onAlarm cacheCleanup: chrome.storage.local.get(null, ...) is issued
CacheCleanupAlarm ==
    /\ sweep.pc = "idle"
    /\ sweep' = [ pc |-> "get", items |-> cache, issued |-> now ]
    /\ UNCHANGED << pipeline, localStats, update, evaluation, contentVars, sync >>

\* the callback of that get: the expired keys are removed
SweepCallback ==
    /\ sweep.pc = "get"
    /\ cache' = storageRemove(cache, keysToRemove(sweep.items, now))
    /\ sweep' = [sweep EXCEPT !.pc = "done"]
    /\ UNCHANGED << now, events, userToken, userId, startup, syncStore,
                    analysisHistory, notifications, call, localStats, update,
                    evaluation, contentVars, sync >>

SweepNext ==
    \/ Next
    \/ CacheCleanupAlarm
    \/ SweepCallback

\* the extension as installed
SweepInit == Init /\ syncStore = InstalledStore

SweepSpec == SweepInit /\ [][SweepNext]_vars

----------------------------------------------------------------------------
(* The dashboardSync alarm and syncWithDashboard *)

\* the parsed bodies of 2xx answers of /stats: complete, partial, empty
DashboardStats ==
    { [total_scanned |-> 7, threats_detected |-> 2, emails_quarantined |-> 1],
      [total_scanned |-> 3],
      EmptyObject }

\* a sync that leaves the local quarantine count alone (variant for C26)
syncedStats_keepsQuarantined(dashboardStats, now_) ==
    [ totalScanned    |-> CountProp(dashboardStats, "total_scanned"),
      threatsDetected |-> CountProp(dashboardStats, "threats_detected"),
      lastSync        |-> now_ ]

\* a sync that takes only the scan total from the dashboard (variant for C37)
syncedStats_totalOnly(dashboardStats, now_) ==
    [ totalScanned      |-> CountProp(dashboardStats, "total_scanned"),
      emailsQuarantined |-> CountProp(dashboardStats, "emails_quarantined"),
      lastSync          |-> now_ ]

\* the object syncWithDashboard hands to chrome.storage.local.set
syncedStats(dashboardStats, now_) ==
    [ totalScanned      |-> CountProp(dashboardStats, "total_scanned"),
      threatsDetected   |-> CountProp(dashboardStats, "threats_detected"),
      emailsQuarantined |-> CountProp(dashboardStats, "emails_quarantined"),
      lastSync          |-> now_ ]

\* onAlarm dashboardSync: with both credentials syncWithDashboard is
\* called and awaits getSettings, otherwise nothing happens
DashboardSyncAlarm(s) ==
    /\ sync[s].pc = "idle"
    /\ s > 1 => sync[s - 1].pc # "idle"
    /\ sync' = [sync EXCEPT ![s] =
                   IF Truthy(userToken) /\ Truthy(userId)
                   THEN [@ EXCEPT !.pc = "settings", !.settings = getSettings(syncStore)]
                   ELSE [@ EXCEPT !.pc = "skipped"]]
    /\ UNCHANGED << pipeline, localStats, update, evaluation, contentVars, sweep >>

\* getSettings resolves: the request for /stats is issued
SyncFetch(s) ==
    /\ sync[s].pc = "settings"
    /\ sync' = [sync EXCEPT ![s] =
                   [@ EXCEPT !.pc = "fetch",
                             !.requests = Append(@,
                                 [ url |-> sync[s].settings.apiEndpoint \o "/stats",
                                   method |-> "GET",
                                   authorization |-> "Bearer " \o userToken ])]]
    /\ UNCHANGED << pipeline, localStats, update, evaluation, contentVars, sweep >>

\* the answer is 2xx: response.json() is awaited
SyncFetchOk(s) ==
    /\ sync[s].pc = "fetch"
    /\ sync' = [sync EXCEPT ![s].pc = "json"]
    /\ UNCHANGED << pipeline, localStats, update, evaluation, contentVars, sweep >>

\* fetch rejects, the answer is not 2xx, or the body does not parse:
\* syncWithDashboard rethrows and the alarm handler logs
SyncFails(s) ==
    /\ sync[s].pc \in {"fetch", "json"}
    /\ sync' = [sync EXCEPT ![s].pc = "failed"]
    /\ UNCHANGED << pipeline, localStats, update, evaluation, contentVars, sweep >>

\* the body parses: the totals are set
SyncJson(s, dashboardStats) ==
    /\ sync[s].pc = "json"
    /\ localStats' = storageSet(localStats, syncedStats(dashboardStats, now))
    /\ sync' = [sync EXCEPT ![s] = [@ EXCEPT !.pc = "synced", !.body = dashboardStats]]
    /\ UNCHANGED << pipeline, update, evaluation, contentVars, sweep >>

\* statistics after some scans
ScannedStats ==
    [InstalledStats EXCEPT !.totalScanned = 5, !.threatsDetected = 2,
                           !.emailsQuarantined = 2]

SyncInit ==
    /\ now = 0
    /\ events = 0
    /\ userToken = Null
    /\ userId = Null
    /\ syncStore \in InitStores
    /\ startup = [ pc |-> "issued", userToken |-> syncStore.userToken,
                   userId |-> syncStore.userId ]
    /\ cache = EmptyObject
    /\ analysisHistory = <<>>
    /\ notifications = <<>>
    /\ call = [h \in Calls |-> IdleCall]
    /\ localStats \in {InstalledStats, ScannedStats}
    /\ update = [u \in Updates |-> IdleUpdate]
    /\ evaluation = NoResult
    /\ NoContentScript
    /\ NoAlarm

SyncNext ==
    \/ Tick(1)
    \/ StartupCallback
    \/ \E token \in Tokens, uid \in Users \cup {""} : SetAuth(token, uid)
    \/ \E s \in Syncs : DashboardSyncAlarm(s)
    \/ \E s \in Syncs : SyncFetch(s)
    \/ \E s \in Syncs : SyncFetchOk(s)
    \/ \E s \in Syncs : SyncFails(s)
    \/ \E s \in Syncs, dashboardStats \in DashboardStats : SyncJson(s, dashboardStats)

SyncSpec == SyncInit /\ [][SyncNext]_vars

----------------------------------------------------------------------------
(* The analysis pipeline and the dashboardSync alarm side by side, for a   *)
(* user who has logged in                                                  *)

\* the third store of InitStores: a session and an API key are stored
LoggedInStore ==
    [InstalledStore EXCEPT !.userToken = "tok1", !.userId = "u1",
                           !.notificationsEnabled = FALSE, !.apiKey = "key-123456"]

SessionInit == Init /\ syncStore = LoggedInStore

\* one alarm, followed up to the answer to its request
SessionNext ==
    \/ Next
    \/ DashboardSyncAlarm(1)
    \/ SyncFetch(1)
    \/ SyncFetchOk(1)
    \/ SyncFails(1)

SessionSpec == SessionInit /\ [][SessionNext]_vars

----------------------------------------------------------------------------
(* emailQuarantined and updateStats messages from several tabs, and the    *)
(* quarantine button of a notification, handled side by side               *)

\* handleQuarantine is called, from onMessage emailQuarantined or from
\* onButtonClicked: it issues its get
HandleQuarantine(q) ==
    /\ quarantine[q].pc = "idle"
    /\ q > 1 => quarantine[q - 1].pc # "idle"
    /\ quarantine' = [quarantine EXCEPT ![q] =
                         [ pc |-> "get",
                           stats |-> storageGet(localStats, {"emailsQuarantined"}) ]]
    /\ UNCHANGED << pipeline, localStats, update, evaluation, monitor, alarmVars >>

CountersNext ==
    \/ \E u \in Updates, data \in StatsData : UpdateStats(u, data)
    \/ \E u \in Updates : StatsCallback(u)
    \/ \E u \in Updates : StatsSetCallback(u)
    \/ \E q \in Quarantines : HandleQuarantine(q)
    \/ \E q \in Quarantines : QuarantineCallback(q)

CountersSpec == StatsInit /\ [][CountersNext]_vars

----------------------------------------------------------------------------
(* updateStats messages and analyzeEmail calls side by side, with both     *)
(* histories at their cap or one below.  The entries were logged in an     *)
(* earlier life of the worker, more than an hour before it was loaded      *)
(* again, and the cache entries of that time have been swept.              *)

\* when entry i of n was logged
LoggedAt(i, n) == i - n - CACHE_TTL_MS - 1

\* scanHistory after n updateStats messages
LoggedScans(n) ==
    [i \in 1..n |-> [ timestamp |-> LoggedAt(i, n), threat |-> Arrival(i).isThreat,
                      provider |-> Arrival(i).provider ]]

\* analysisHistory after n analyses of EmailPhish that fell back
LoggedAnalyses(n) ==
    [i \in 1..n |->
        logToHistory(<<>>, EmailPhish, performLocalAnalysis(featuresOf[EmailPhish]),
                     LoggedAt(i, n))[1]]

CapsInit ==
    /\ now = 0
    /\ events = 0
    /\ userToken = Null
    /\ userId = Null
    /\ syncStore = InstalledStore
    /\ startup = [ pc |-> "issued", userToken |-> Null, userId |-> Null ]
    /\ cache = EmptyObject
    /\ \E n \in {ANALYSIS_HISTORY_CAP - 1, ANALYSIS_HISTORY_CAP} :
          analysisHistory = LoggedAnalyses(n)
    /\ notifications = <<>>
    /\ call = [h \in Calls |-> IdleCall]
    /\ \E n \in {SCAN_HISTORY_CAP - 1, SCAN_HISTORY_CAP} :
          localStats = [InstalledStats EXCEPT !.totalScanned = n,
                                              !.threatsDetected = n \div 4,
                                              !.lastScan = LoggedAt(n, n),
                                              !.scanHistory = LoggedScans(n)]
    /\ update = [u \in Updates |-> IdleUpdate]
    /\ evaluation = NoResult
    /\ NoContentScript
    /\ NoAlarm

\* the calls are answered by the service at once; the messages are
\* threats found by the Gmail monitor
CapsNext ==
    \/ \E h \in Calls : Start(h, EmailPhish)
    \/ \E h \in Calls : SettingsCallback(h)
    \/ \E h \in Calls : CachedCallback(h)
    \/ \E h \in Calls : FetchOk(h)
    \/ \E h \in Calls : JsonResolves(h, [prediction |-> "phish", confidence |-> Dbl(95)])
    \/ \E h \in Calls : CacheSetCallback(h)
    \/ \E h \in Calls : LogCallback(h)
    \/ \E h \in Calls : LogSetCallback(h)
    \/ \E u \in Updates : UpdateStats(u, [isThreat |-> TRUE, provider |-> "gmail"])
    \/ \E u \in Updates : StatsCallback(u)
    \/ \E u \in Updates : StatsSetCallback(u)

CapsSpec == CapsInit /\ [][CapsNext]_vars

----------------------------------------------------------------------------
(* updateStats messages and dashboardSync alarms side by side, for a user  *)
(* who has logged in and a dashboard whose totals are consistent           *)

\* bodies of /stats in which the threats do not exceed the scans
ConsistentStats ==
    { d \in DashboardStats \cup { [total_scanned |-> 3, threats_detected |-> 3] } :
          CountProp(d, "threats_detected") <= CountProp(d, "total_scanned") }

TotalsInit ==
    /\ now = 0
    /\ events = 0
    /\ userToken = Null
    /\ userId = Null
    /\ syncStore = LoggedInStore
    /\ startup = [ pc |-> "issued", userToken |-> syncStore.userToken,
                   userId |-> syncStore.userId ]
    /\ cache = EmptyObject
    /\ analysisHistory = <<>>
    /\ notifications = <<>>
    /\ call = [h \in Calls |-> IdleCall]
    /\ localStats \in {InstalledStats, ScannedStats}
    /\ update = [u \in Updates |-> IdleUpdate]
    /\ evaluation = NoResult
    /\ NoContentScript
    /\ NoAlarm

\* the updateStats messages beside one alarm, followed to its end
TotalsNext ==
    \/ StartupCallback
    \/ \E u \in Updates, data \in StatsData : UpdateStats(u, data)
    \/ \E u \in Updates : StatsCallback(u)
    \/ \E u \in Updates : StatsSetCallback(u)
    \/ DashboardSyncAlarm(1)
    \/ SyncFetch(1)
    \/ SyncFetchOk(1)
    \/ SyncFails(1)
    \/ \E dashboardStats \in ConsistentStats : SyncJson(1, dashboardStats)

TotalsSpec == TotalsInit /\ [][TotalsNext]_vars

----------------------------------------------------------------------------
(* generateCacheKey on messages that begin alike: a first message is       *)
(* analysed by the service and cached, then one of KeyEmails arrives       *)

\* what the key is cut from when btoa succeeds: 32 characters of base64
\* stand for 24 characters of content
KEY_PREFIX == 24
contentPrefix(emailData) == Substring0(cacheContent(emailData), KEY_PREFIX)

KeyInit ==
    /\ NoAnalysis
    /\ localStats = InstalledStats
    /\ update = [u \in Updates |-> IdleUpdate]
    /\ evaluation = NoResult
    /\ NoContentScript
    /\ NoAlarm

KeyNext ==
    \/ \E d \in {1, CACHE_TTL_MS} : Tick(d)
    \/ Start(1, EmailPhish)
    \/ \E h \in Calls \ {1}, emailData \in KeyEmails : Start(h, emailData)
    \/ \E h \in Calls : SettingsCallback(h)
    \/ \E h \in Calls : CachedCallback(h)
    \/ \E h \in Calls : FetchOk(h)
    \/ \E h \in Calls, body \in Bodies : JsonResolves(h, body)
    \/ \E h \in Calls : CacheSetCallback(h)
    \/ \E h \in Calls : LogCallback(h)
    \/ \E h \in Calls : LogSetCallback(h)

KeySpec == KeyInit /\ [][KeyNext]_vars

----------------------------------------------------------------------------
(* The inbox list under a monitor: rows appear and are rendered again, the *)
(* MutationObserver calls checkForNewEmails, and every row it submits is   *)
(* scanned.  Here monitor holds the list, the set processedEmails and the  *)
(* scans begun.                                                            *)

\* the content scripts whose checkForNewEmails is followed
RowScripts == { "unnamed/part_002", "src/content-yahoo.js" }

\* the rows the list gets to hold
MaxRows == 3

\* the id attribute of a row; a row may come without one
EmailIds == { "m1", "m2" }
NoId == ""

\* what `gmail_${Date.now()}_${Math.random()}` may evaluate to
RandomIds == { "gmail_0_0.1", "gmail_0_0.7" }

\* a monitor after its constructor
RowMonitor(script) ==
    [ script          |-> script,
      rows            |-> <<>>,   \* the rows of the list: [id, processed]
      processedEmails |-> {},
      scans           |-> <<>>,   \* the scanEmailRow calls: [emailId, row, pc]
      checked         |-> 0 ]     \* the rows the last checkForNewEmails saw

\* getEmailId(row); random is what the fallback of the Gmail monitor
\* evaluates to if it is reached
getEmailId(script, row, random) ==
    IF row.id # NoId THEN row.id
    ELSE IF script = "unnamed/part_002" THEN random
    ELSE NoId

\* querySelectorAll of checkForNewEmails selects the row
selects(script, row) ==
    IF script = "unnamed/part_002" THEN ~row.processed ELSE TRUE

\* a check that looks at the id only (variant for C40)
submits_unguarded(processedEmails, emailId) == emailId # NoId

\* emailId && !this.processedEmails.has(emailId)
submits(processedEmails, emailId) ==
    emailId # NoId /\ emailId \notin processedEmails

\* the forEach of checkForNewEmails from row i on; random[i] is what
\* Math.random yields should getEmailId of row i reach it
RECURSIVE checkRows(_, _, _)
checkRows(m, i, random) ==
    IF i > Len(m.rows) THEN [m EXCEPT !.checked = Len(m.rows)]
    ELSE LET row == m.rows[i]
             emailId == getEmailId(m.script, row, random[i])
         IN  IF selects(m.script, row) /\ submits(m.processedEmails, emailId)
             THEN checkRows(
                    [m EXCEPT !.processedEmails = @ \cup {emailId},
                              !.rows[i].processed =
                                  IF m.script = "unnamed/part_002" THEN TRUE ELSE @,
                              !.scans = Append(@, [ emailId |-> emailId, row |-> i,
                                                    pc |-> "analyzeEmail" ])],
                    i + 1, random)
             ELSE checkRows(m, i + 1, random)

\* the list gets a row: a new message, or a message rendered again
RowAppears(id) ==
    /\ Len(monitor.rows) < MaxRows
    /\ monitor' = [monitor EXCEPT !.rows = Append(@, [id |-> id, processed |-> FALSE])]
    /\ UNCHANGED << pipeline, localStats, update, evaluation, quarantine, alarmVars >>

\* the MutationObserver callback, or the initial scan
CheckForNewEmails(random) ==
    /\ monitor' = checkRows(monitor, 1, random)
    /\ UNCHANGED << pipeline, localStats, update, evaluation, quarantine, alarmVars >>

\* analyzeEmail of scan k resolves and handleAnalysisResult decides
AnalysisReturns(k, result) ==
    /\ k <= Len(monitor.scans)
    /\ monitor.scans[k].pc = "analyzeEmail"
    /\ monitor' = [monitor EXCEPT !.scans[k].pc =
                      IF wantsQuarantine(result, monitorSettings(syncStore))
                      THEN "quarantineDue" ELSE "done"]
    /\ UNCHANGED << pipeline, localStats, update, evaluation, quarantine, alarmVars >>

\* moveToQuarantine is called for scan k: from the timer in the Gmail
\* monitor, at once in the Yahoo monitor
QuarantineRuns(k) ==
    /\ k <= Len(monitor.scans)
    /\ monitor.scans[k].pc = "quarantineDue"
    /\ monitor' = [monitor EXCEPT !.scans[k].pc = "quarantined"]
    /\ UNCHANGED << pipeline, localStats, update, evaluation, quarantine, alarmVars >>

DedupInit ==
    /\ now = 0
    /\ events = 0
    /\ userToken = Null
    /\ userId = Null
    /\ syncStore \in MonitorStores
    /\ startup = [ pc |-> "issued", userToken |-> Null, userId |-> Null ]
    /\ cache = EmptyObject
    /\ analysisHistory = <<>>
    /\ notifications = <<>>
    /\ call = [h \in Calls |-> IdleCall]
    /\ localStats = InstalledStats
    /\ update = [u \in Updates |-> IdleUpdate]
    /\ evaluation = NoResult
    /\ \E script \in RowScripts : monitor = RowMonitor(script)
    /\ quarantine = [q \in Quarantines |-> IdleQuarantine]
    /\ NoAlarm

DedupNext ==
    \/ \E id \in EmailIds \cup {NoId} : RowAppears(id)
    \/ \E random \in [1..MaxRows -> RandomIds] : CheckForNewEmails(random)
    \/ \E k \in 1..MaxRows, result \in AnalysisResults : AnalysisReturns(k, result)
    \/ \E k \in 1..MaxRows : QuarantineRuns(k)

DedupSpec == DedupInit /\ [][DedupNext]_vars

----------------------------------------------------------------------------
(* Properties of the analysis pipeline *)

\* the /analyze requests an invocation has made
AnalyzeRequests(c) == SelectSeq(c.requests, LAMBDA r : r.path = "/analyze")

\* how an /analyze attempt of the invocation ended
HasOutcome(c, outcome) == \E i \in 1..Len(c.outcomes) : c.outcomes[i] = outcome

\* the record the invocation was given (user_id is added by the handler)
RecordOf(c) == [f \in DOMAIN c.emailData \ {"user_id"} |-> c.emailData[f]]

\* C1: handleEmailAnalysis never rejects: every analyzeEmail message that is
\* answered is answered with success true and a result, whatever happened
\* to its requests
C1_AlwaysSuccess ==
    \A h \in Calls :
        call[h].pc = "done" =>
            /\ call[h].response.success
            /\ Has(call[h].response.result, "prediction")

\* C1: an invocation whose body threw was answered through the catch block
C1_Witness ==
    \E h \in Calls :
        /\ call[h].pc = "done"
        /\ call[h].response.success
        /\ call[h].response.result.prediction = "error"

\* C2: no fetch of the pipeline waits for the remote service without a
\* bound: while a fetch of /analyze or of /stats is pending, a timer of the
\* invocation is armed, so that the answer to analyzeEmail does not depend
\* on the remote service answering
C2_FetchesAreBounded ==
    \A h \in Calls :
        call[h].pc \in {"fetch", "statsFetch"} => TimerArmed(call[h])

\* the step in which the fetch of invocation h resolves with status 401
Step401(h) ==
    /\ call[h].pc = "fetch"
    /\ call'[h].outcomes = Append(call[h].outcomes, "401")

\* C3: the step that receives a 401 clears userToken and userId in memory
\* and in the synchronized store, leaves analyzeWithBackend before the
\* invocation is answered, and the invocation makes no further /analyze
\* request
C3_ClearedOn401 ==
    [][\A h \in Calls :
          /\ Step401(h) =>
                /\ userToken' = Null
                /\ userId' = Null
                /\ syncStore'.userToken = Null
                /\ syncStore'.userId = Null
                /\ call'[h].pc = "cacheSet"
                /\ call'[h].requests = call[h].requests
          /\ HasOutcome(call[h], "401") =>
                AnalyzeRequests(call'[h]) = AnalyzeRequests(call[h])]_vars

\* C3: an invocation that sent the stored session and got a 401 has been
\* answered, and the session is gone from memory and from the store
C3_Witness ==
    \E h \in Calls :
        /\ call[h].pc = "done"
        /\ HasOutcome(call[h], "401")
        /\ call[h].requests[1].auth = "Bearer tok1"
        /\ Len(AnalyzeRequests(call[h])) = 1
        /\ userToken = Null
        /\ syncStore.userToken = Null

\* the answer to an invocation whose /analyze request failed for a reason
\* other than the session (a network error, a 500)
ordinaryFallback(c) ==
    analyzeEmailResponse(Fulfilled(
        [processing_time_ms |-> c.result.processing_time_ms]
            @@ performLocalAnalysis(Features(c))))

\* C4: the answer to an invocation that got a 401 tells the caller that the
\* session expired: it differs from the answer of an ordinary fallback
C4_AuthExpiredSignalled ==
    \A h \in Calls :
        (call[h].pc = "done" /\ HasOutcome(call[h], "401")) =>
            call[h].response # ordinaryFallback(call[h])

\* C5: a lookup that found an entry older than the TTL was not a hit
C5_NoStaleHit ==
    \A h \in Calls :
        (  /\ call[h].lookup # NoResult
           /\ call[h].lookup.stored
           /\ call[h].lookup.age > CACHE_TTL_MS ) =>
            /\ ~call[h].lookup.hit
            /\ Len(AnalyzeRequests(call[h])) >= 1

\* C5: a lookup has found an entry older than the TTL
C5_Witness ==
    \E h \in Calls :
        /\ call[h].lookup # NoResult
        /\ call[h].lookup.stored
        /\ call[h].lookup.age > CACHE_TTL_MS

\* C6: when an invocation for a record was answered with scanning enabled,
\* a later invocation for the same record, begun and answered within the TTL,
\* gets the same answer (processing_time_ms included) and makes no /analyze
\* request; a lookup that finds the entry at the age of the TTL or older is
\* followed by a request
C6_SecondCallFromCache ==
    \A h1, h2 \in Calls :
        /\ (  /\ h1 \in call[h2].after
               /\ call[h2].pc = "done"
               /\ RecordOf(call[h1]) = RecordOf(call[h2])
               /\ call[h1].settings.enabled
               /\ now - call[h1].startTime < CACHE_TTL_MS ) =>
                /\ call[h2].response = call[h1].response
                /\ AnalyzeRequests(call[h2]) = <<>>
        /\ (  /\ call[h2].lookup # NoResult
               /\ call[h2].lookup.stored
               /\ call[h2].lookup.age >= CACHE_TTL_MS ) =>
                Len(AnalyzeRequests(call[h2])) >= 1

\* C7: an invocation makes at most retryAttempts requests of /analyze
C7_AtMostThreeAttempts ==
    \A h \in Calls :
        /\ Len(AnalyzeRequests(call[h])) <= API_CONFIG.retryAttempts
        /\ call[h].attempt <= API_CONFIG.retryAttempts

\* C7: an invocation was answered by its third request
C7_Witness ==
    \E h \in Calls :
        /\ call[h].pc = "done"
        /\ Len(AnalyzeRequests(call[h])) = API_CONFIG.retryAttempts
        /\ Len(call[h].outcomes) = API_CONFIG.retryAttempts
        /\ call[h].outcomes[API_CONFIG.retryAttempts] = "ok"

\* C8: after three 429 answers in a row the invocation has made exactly three
\* requests, has slept retryDelay*1 and then retryDelay*2 between them, and
\* holds the result of the local scorer, with fallback true
C8_ThreeRateLimits ==
    \A h \in Calls :
        call[h].outcomes = << "429", "429", "429" >> =>
            LET c == call[h]
                sent == AnalyzeRequests(c)
            IN  /\ Len(sent) = 3
                /\ c.waits = << API_CONFIG.retryDelay * 1, API_CONFIG.retryDelay * 2 >>
                /\ sent[2].at >= sent[1].at + API_CONFIG.retryDelay * 1
                /\ sent[3].at >= sent[2].at + API_CONFIG.retryDelay * 2
                /\ c.pc \notin {"fetch", "sleep", "json"}
                /\ c.result = [processing_time_ms |-> c.result.processing_time_ms]
                                  @@ performLocalAnalysis(Features(c))
                /\ c.result.fallback

\* C8: an invocation was answered after three 429 answers
C8_Witness ==
    \E h \in Calls :
        /\ call[h].outcomes = << "429", "429", "429" >>
        /\ call[h].pc = "done"
        /\ call[h].response.result.fallback

\* the step in which the abort timer of invocation h fires
TimeoutStep(h) ==
    /\ call[h].pc = "fetch"
    /\ call'[h].outcomes = Append(call[h].outcomes, "timeout")

\* C9: the abort comes API_CONFIG.timeout after the request; on attempt
\* n < 3 the invocation then sleeps retryDelay*n and makes attempt n + 1 when
\* that time has passed; on attempt 3 it makes no request and holds the
\* result of the local scorer
C9_TimeoutRetry ==
    [][\A h \in Calls :
          LET c == call[h]
              d == call'[h]
          IN  /\ TimeoutStep(h) =>
                    /\ now' = c.requests[Len(c.requests)].at + API_CONFIG.timeout
                    /\ d.requests = c.requests
                    /\ IF c.attempt < 3
                       THEN /\ d.pc = "sleep"
                            /\ d.waits = Append(c.waits, API_CONFIG.retryDelay * c.attempt)
                            /\ d.timer = now' + API_CONFIG.retryDelay * c.attempt
                       ELSE /\ d.pc = "cacheSet"
                            /\ d.waits = c.waits
                            /\ d.result = [processing_time_ms |-> now' - c.startTime]
                                              @@ performLocalAnalysis(Features(c))
              /\ (c.pc = "sleep" /\ d.pc # "sleep") =>
                    /\ now' = c.timer
                    /\ d.pc = "fetch"
                    /\ d.attempt = c.attempt + 1
                    /\ Len(d.requests) = Len(c.requests) + 1]_vars

\* C9: an invocation was answered after three timeouts
C9_Witness ==
    \E h \in Calls :
        /\ call[h].outcomes = << "timeout", "timeout", "timeout" >>
        /\ call[h].waits = << 1000, 2000 >>
        /\ call[h].pc = "done"
        /\ call[h].response.result.local_analysis

\* C10: in every answer, threat is set exactly when prediction is "phish"
C10_ThreatIffPhish ==
    \A h \in Calls :
        (call[h].pc = "done" /\ call[h].response.success) =>
            LET result == call[h].response.result
            IN  BoolProp(result, "threat") = (result.prediction = "phish")

----------------------------------------------------------------------------
(* Properties of the normalized response *)

\* C11: when the 2xx body carries no threat_level, the threat_level of the
\* normalized result is the bucketing of the confidence of that result,
\* whether the body named it confidence or confidence_score
C11_LevelFromOwnConfidence ==
    \A h \in Calls :
        LET c == call[h]
        IN  (c.body # NoResult /\ ~Has(c.body, "threat_level"))
                => c.result.threat_level = determineThreatLevel(c.result.confidence)

\* the step on which invocation h issues a fetch of /analyze
IssuesAnalyze(h) ==
    /\ Len(call'[h].requests) = Len(call[h].requests) + 1
    /\ call'[h].requests[Len(call'[h].requests)].path = "/analyze"

\* C12: every fetch of /analyze, first attempt or retry, carries the session
\* token as bearer when the worker holds one at that moment, otherwise the
\* configured API key, otherwise the fixed demo key
C12_AuthorizationHeader ==
    [][ \A h \in Calls :
            IssuesAnalyze(h) =>
                call'[h].requests[Len(call'[h].requests)].auth =
                    (IF userToken # Null /\ userToken # ""
                     THEN "Bearer " \o userToken
                     ELSE IF syncStore.apiKey # ""
                          THEN "Bearer " \o syncStore.apiKey
                          ELSE "Bearer demo-key") ]_vars

\* a retry carries the session token that setAuth stored after the first
\* attempt went out with the demo key
C12_Witness ==
    \E h \in Calls :
        /\ Len(call[h].requests) >= 2
        /\ call[h].requests[1] = [path |-> "/analyze", auth |-> "Bearer demo-key", at |-> 0]
        /\ call[h].requests[2].path = "/analyze"
        /\ call[h].requests[2].auth = "Bearer tok2"

----------------------------------------------------------------------------
(* Properties of updateStatistics *)

\* the updateStats messages handled so far, and those among them that
\* satisfy the condition
Handled(Cond(_)) ==
    Cardinality({ u \in Updates : update[u].pc # "idle" /\ Cond(update[u].data) })

AnyData(data) == TRUE
IsThreat(data) == BoolProp(data, "isThreat")
FromGmail(data) == StrProp(data, "provider", "unknown") = "gmail"
GmailThreat(data) == FromGmail(data) /\ IsThreat(data)
FromUnknown(data) == StrProp(data, "provider", "unknown") = "unknown"
UnknownThreat(data) == FromUnknown(data) /\ IsThreat(data)

\* the {scanned, threats} pair of a provider, zero when it has none
ProviderShare(provider) ==
    IF Has(localStats, "providerStats") /\ Has(localStats.providerStats, provider)
    THEN localStats.providerStats[provider]
    ELSE [scanned |-> 0, threats |-> 0]

\* C13: once every updateStats message received has been processed to the
\* end, totalScanned counts the messages, threatsDetected those with
\* isThreat, and the pair of each provider its share of them, whatever the
\* order of the storage reads and writes
C13_NoIncrementLost ==
    (\A u \in Updates : update[u].pc \in {"idle", "done"}) =>
        /\ localStats.totalScanned = Handled(AnyData)
        /\ localStats.threatsDetected = Handled(IsThreat)
        /\ ProviderShare("gmail") =
              [scanned |-> Handled(FromGmail), threats |-> Handled(GmailThreat)]
        /\ ProviderShare("unknown") =
              [scanned |-> Handled(FromUnknown), threats |-> Handled(UnknownThreat)]

----------------------------------------------------------------------------
(* Properties of the analysis pipeline, continued *)

\* C14: while scanning is disabled in the settings, an analyzeEmail call is
\* answered at the resolution of getSettings with the legit, non-threat
\* "Scanner disabled" result, and no call reads or writes the cache, sends a
\* request, raises a notification or appends to the history
C14_DisabledDoesNothing ==
    syncStore.enabled = FALSE =>
        /\ cache = EmptyObject
        /\ analysisHistory = <<>>
        /\ notifications = <<>>
        /\ \A h \in Calls :
              LET c == call[h]
              IN  /\ c.pc \in {"idle", "getSettings", "done"}
                  /\ c.requests = <<>>
                  /\ c.cached = NoResult
                  /\ c.lookup = NoResult
                  /\ ~c.notified
                  /\ c.pc = "done" =>
                        c.response =
                            [ success |-> TRUE,
                              result  |-> [ threat |-> FALSE, prediction |-> "legit",
                                            confidence |-> Dbl(0),
                                            message |-> "Scanner disabled" ] ]

\* a call with scanning disabled has been answered
C14_Witness ==
    /\ syncStore.enabled = FALSE
    /\ \E h \in Calls :
          /\ call[h].pc = "done"
          /\ call[h].response.result.message = "Scanner disabled"
          /\ call[h].emailData = EmailPhish

\* the step on which invocation h, having run with scanning enabled and
\* missed the cache, is answered
AnswersMiss(h) ==
    /\ call[h].pc # "done"
    /\ call'[h].pc = "done"
    /\ call'[h].lookup # NoResult
    /\ ~call'[h].lookup.hit

----------------------------------------------------------------------------
(* Properties of the local scorer and of the bucketing *)

\* the conditions of the eight indicators on a feature vector
FiresTld(f) == f.has_suspicious_tld # 0
FiresUrgent(f) == f.has_urgent_keywords # 0
FiresFinancial(f) == f.has_financial_keywords # 0
FiresShortened(f) == f.has_shortened_urls # 0
FiresMismatch(f) == f.has_display_name_mismatch # 0
FiresAttachment(f) == f.has_suspicious_attachments # 0
FiresLinks(f) == f.num_external_links > 5
FiresAuth(f) == ~f.has_spf_pass /\ ~f.has_dkim_pass

\* the sum, in hundredths, of the weights of the indicators that fire
WeightSum(f) ==
    (IF FiresTld(f) THEN 30 ELSE 0) + (IF FiresUrgent(f) THEN 20 ELSE 0)
    + (IF FiresFinancial(f) THEN 20 ELSE 0) + (IF FiresShortened(f) THEN 25 ELSE 0)
    + (IF FiresMismatch(f) THEN 35 ELSE 0) + (IF FiresAttachment(f) THEN 40 ELSE 0)
    + (IF FiresLinks(f) THEN 15 ELSE 0) + (IF FiresAuth(f) THEN 20 ELSE 0)

CappedSum(f) == IF WeightSum(f) > 100 THEN 100 ELSE WeightSum(f)

\* exactly the suspicious TLD and the urgent language fire
OnlyTldAndUrgent(f) ==
    /\ FiresTld(f) /\ FiresUrgent(f)
    /\ ~FiresFinancial(f) /\ ~FiresShortened(f) /\ ~FiresMismatch(f)
    /\ ~FiresAttachment(f) /\ ~FiresLinks(f) /\ ~FiresAuth(f)

\* C16 as stated: the confidence of the local scorer is the number
\* min(1, sum of the weights of the indicators that fire), and the verdict
\* is phishing exactly when the confidence exceeds 0.5
C16_ConfidenceIsSum ==
    evaluation.pc = "scored" =>
        /\ evaluation.output.confidence = Dbl(CappedSum(evaluation.input))
        /\ evaluation.output.threat = (WeightSum(evaluation.input) > 50)

\* C16: the confidence of the local scorer is the double-precision sum of
\* the weights of the indicators that fire (0.30, 0.20, 0.20, 0.25, 0.35,
\* 0.40, 0.15, 0.20), capped at 1; it is within 2^-52 of min(1, sum) but not
\* always the double nearest to it; the verdict is phishing exactly when the
\* sum of the weights exceeds 0.5, and exactly {suspicious TLD, urgent
\* language} gives confidence 0.5 and no threat
C16_ConfidenceIsRoundedSum ==
    evaluation.pc = "scored" =>
        LET f == evaluation.input
            r == evaluation.output
        IN  /\ r.confidence.e = CappedSum(f)
            /\ r.confidence.n \in -(100 * 2^(55 - 52))..(100 * 2^(55 - 52))
            /\ r.confidence_score = r.confidence
            /\ r.threat = (WeightSum(f) > 50)
            /\ r.prediction = (IF WeightSum(f) > 50 THEN "phish" ELSE "legit")
            /\ OnlyTldAndUrgent(f) =>
                  /\ r.confidence = [e |-> 50, n |-> 0]
                  /\ r.threat = FALSE

\* the scorer has run on a vector where exactly the suspicious TLD and the
\* urgent language fire
C16_Witness ==
    /\ evaluation.pc = "scored"
    /\ OnlyTldAndUrgent(evaluation.input)
    /\ evaluation.output.confidence = Dbl(50)
    /\ evaluation.output.prediction = "legit"

\* how often an entry occurs in a list
Occurrences(list, entry) ==
    Cardinality({ i \in 1..Len(list) : list[i] = entry })

\* the entry of each indicator and whether its condition holds on f
IndicatorTable(f) ==
    { <<"Suspicious domain extension", FiresTld(f)>>,
      <<"Urgent language detected", FiresUrgent(f)>>,
      <<"Financial terms detected", FiresFinancial(f)>>,
      <<"Shortened URLs found", FiresShortened(f)>>,
      <<"Sender name mismatch", FiresMismatch(f)>>,
      <<"Suspicious attachments", FiresAttachment(f)>>,
      <<"Many external links", FiresLinks(f)>>,
      <<"Email authentication failed", FiresAuth(f)>> }

\* C17: for every feature vector the local scorer returns a confidence in
\* [0, 1], fallback true, model_version "local-heuristic-v1", and a list of
\* indicators with exactly one entry for each indicator whose condition
\* holds and no other entry
C17_ScorerResultShape ==
    evaluation.pc = "scored" =>
        LET f == evaluation.input
            r == evaluation.output
        IN  /\ fge(r.confidence, Dbl(0))
            /\ fge(Dbl(100), r.confidence)
            /\ r.fallback = TRUE
            /\ r.model_version = "local-heuristic-v1"
            /\ \A row \in IndicatorTable(f) :
                  Occurrences(r.indicators, row[1]) = (IF row[2] THEN 1 ELSE 0)
            /\ Len(r.indicators) =
                  Cardinality({ row \in IndicatorTable(f) : row[2] })

\* the scorer has run on a vector with five external links, a suspicious
\* TLD and failed authentication: two entries, none for the links
C17_Witness ==
    /\ evaluation.pc = "scored"
    /\ evaluation.input.num_external_links = 5
    /\ evaluation.output.indicators =
          << "Suspicious domain extension", "Email authentication failed" >>
    /\ evaluation.output.fallback

\* the order of the threat levels
Severity(level) ==
    CASE level = "LOW" -> 0
      [] level = "MEDIUM" -> 1
      [] level = "HIGH" -> 2
      [] level = "CRITICAL" -> 3

\* the level the boundaries 0.9, 0.7 and 0.5 assign to a confidence
LevelAt(c, level) ==
    /\ (level = "CRITICAL") = fge(c, Dbl(90))
    /\ (level = "HIGH") = (fge(c, Dbl(70)) /\ ~fge(c, Dbl(90)))
    /\ (level = "MEDIUM") = (fge(c, Dbl(50)) /\ ~fge(c, Dbl(70)))
    /\ (level = "LOW") = ~fge(c, Dbl(50))

\* C18: over [0, 1] the level of a confidence is CRITICAL from 0.9, HIGH
\* from 0.7, MEDIUM from 0.5 and LOW below, boundaries included in the
\* higher level, and of two confidences the larger never gets the less
\* severe level
C18_BucketsAreMonotone ==
    evaluation.pc = "bucketed" =>
        /\ LevelAt(evaluation.input.lo, evaluation.output.lo)
        /\ LevelAt(evaluation.input.hi, evaluation.output.hi)
        /\ Severity(evaluation.output.lo) <= Severity(evaluation.output.hi)

\* the largest double below 0.9 and 0.9 itself have been bucketed
C18_Witness ==
    /\ evaluation.pc = "bucketed"
    /\ evaluation.input.hi = Dbl(90)
    /\ evaluation.input.lo # Dbl(90)
    /\ evaluation.input.lo.e = 90
    /\ evaluation.output = [lo |-> "HIGH", hi |-> "CRITICAL"]

----------------------------------------------------------------------------
(* Properties of the analysis pipeline: malformed bodies, notifications *)

\* the 2xx answer to the last attempt of the call had a malformed body:
\* not JSON, or JSON with neither prediction nor is_phishing
MalformedBody(c) ==
    \/ (c.outcomes # <<>> /\ c.outcomes[Len(c.outcomes)] = "malformed")
    \/ (c.body # NoResult /\ ~Has(c.body, "prediction") /\ ~Has(c.body, "is_phishing"))

\* C19: a call whose 2xx response has a malformed body is answered with the
\* result of the local scorer, fallback true
C19_MalformedIsFallback ==
    \A h \in Calls :
        (call[h].pc = "done" /\ MalformedBody(call[h])) =>
            /\ call[h].response.success
            /\ BoolProp(call[h].response.result, "fallback")
            /\ call[h].response.result.model_version = "local-heuristic-v1"

\* the chrome.notifications.create calls made for invocation h so far
NotificationsOf(h) ==
    SelectSeq(notifications, LAMBDA n : n.emailData = call[h].emailData
                                        /\ n.result = call[h].result)

\* C20: a call that missed the cache raises a notification exactly when
\* its result is a threat and notifications are enabled in the settings;
\* it raises it once, after the result is cached, and not before
C20_NotifiedIffThreat ==
    \A h \in Calls :
        LET c == call[h]
        IN  (c.lookup # NoResult /\ ~c.lookup.hit) =>
                IF c.pc \in {"logCallback", "logSet", "syncSettings", "statsFetch", "done"}
                THEN /\ c.notified =
                           (BoolProp(c.result, "threat")
                              /\ syncStore.notificationsEnabled # FALSE)
                     /\ c.notified => Len(NotificationsOf(h)) >= 1
                     /\ Len(notifications) =
                           Cardinality({ g \in Calls : call[g].notified })
                ELSE ~c.notified

\* a result with prediction legit and threat true has raised a notification
C20_Witness ==
    \E h \in Calls :
        /\ call[h].pc = "done"
        /\ call[h].notified
        /\ call[h].result.prediction = "legit"
        /\ call[h].result.threat
        /\ Len(notifications) = 1

----------------------------------------------------------------------------
(* Purity of extractFeatures and performLocalAnalysis *)

\* the invocation has a result it computed itself, not one from the cache
OwnResult(c) ==
    /\ c.result # NoResult
    /\ c.lookup # NoResult
    /\ ~c.lookup.hit

\* the properties of the result that performLocalAnalysis returns
LocalPart(result) ==
    [f \in DOMAIN result \ {"processing_time_ms"} |-> result[f]]

----------------------------------------------------------------------------
(* Failures that are not retried *)

\* how attempts end that the policy does not retry: a status that is
\* neither 401 nor 429, a rejected fetch that is not an abort
Terminal == {"500", "network error"}

\* C32: an /analyze attempt that ends with a status other than 401 and 429
\* or with a network error is the last attempt of its call: no sleep and no
\* request follows, and the call holds and returns the result of the local
\* scorer with fallback = true
C32_NoRetryOnOtherErrors ==
    \A h \in Calls :
        LET c == call[h]
        IN  \A i \in 1..Len(c.outcomes) :
                c.outcomes[i] \in Terminal =>
                    /\ i = Len(c.outcomes)
                    /\ Len(AnalyzeRequests(c)) = i
                    /\ Len(c.waits) = i - 1
                    /\ c.pc # "sleep"
                    /\ c.result.fallback
                    /\ LocalPart(c.result)
                          = performLocalAnalysis(featuresOf[RecordOf(c)])
                    /\ c.pc = "done" =>
                          /\ c.response.success
                          /\ c.response.result = c.result

\* a call whose only request was answered 500 has been answered with the
\* local result
C32_Witness ==
    \E h \in Calls :
        /\ call[h].pc = "done"
        /\ call[h].outcomes = << "500" >>
        /\ Len(call[h].requests) = 1
        /\ call[h].response.result.fallback
        /\ call[h].response.result.model_version = "local-heuristic-v1"

----------------------------------------------------------------------------
(* Overlapping calls for one cache key *)

\* both invocations missed the cache and have a request for /analyze in
\* flight under the same cache key
BothInFlight(h, g) ==
    /\ h # g
    /\ call[h].pc = "fetch"
    /\ call[g].pc = "fetch"
    /\ call[h].cacheKey = call[g].cacheKey
    /\ ~call[h].lookup.hit
    /\ ~call[g].lookup.hit

\* the step in which invocation h comes back from analyzeWithBackend
ComesBack(h) ==
    /\ call[h].result = NoResult
    /\ call'[h].result # NoResult
    /\ call[h].lookup # NoResult
    /\ ~call[h].lookup.hit

\* C33: calls for one cache key that overlap are not coalesced: while both
\* are in flight neither waits for the other, the one that comes back
\* leaves the other's request in flight, and every call that comes back
\* writes its own result under the key, over what a call before it wrote
C33_OverlappingCallsBothWrite ==
    [][ \A h \in Calls :
          ComesBack(h) =>
              /\ cache'[call[h].cacheKey]
                    = [result |-> call'[h].result, timestamp |-> now']
              /\ \A g \in Calls :
                    BothInFlight(h, g) =>
                        /\ call'[g] = call[g]
                        /\ Len(AnalyzeRequests(call[g])) >= 1 ]_vars

\* two calls for the same record overlapped, both missed the cache, both
\* sent a request at the same time and got different answers; the cache
\* holds the result of one of them and not that of the other
C33_Witness ==
    /\ call[1].pc = "done"
    /\ call[2].pc = "done"
    /\ call[1].cacheKey = call[2].cacheKey
    /\ 1 \notin call[2].after
    /\ 2 \notin call[1].after
    /\ call[1].lookup # NoResult
    /\ call[2].lookup # NoResult
    /\ ~call[1].lookup.hit
    /\ ~call[2].lookup.hit
    /\ Len(AnalyzeRequests(call[1])) = 1
    /\ Len(AnalyzeRequests(call[2])) = 1
    /\ call[1].requests[1].at = call[2].requests[1].at
    /\ call[1].result # call[2].result
    /\ cache[call[1].cacheKey].result \in {call[1].result, call[2].result}

----------------------------------------------------------------------------
(* The statistics sync after an analysis *)

\* the step in which the fetch of /stats of invocation h ends
StatsSyncEnds(h) == call[h].pc = "statsFetch" /\ call'[h].pc # "statsFetch"

\* C34: however the request for /stats ends, the call is answered with the
\* result it had before the sync, and the step changes neither the cache
\* nor the history nor the statistics nor the notifications
C34_SyncFailureIsContained ==
    [][ \A h \in Calls :
          StatsSyncEnds(h) =>
              /\ call'[h].pc = "done"
              /\ call'[h].result = call[h].result
              /\ call'[h].response = [success |-> TRUE, result |-> call[h].result]
              /\ UNCHANGED << cache, analysisHistory, localStats, notifications >> ]_vars

\* a call whose fetch of /stats was rejected has been answered with the
\* result that the cache and the history hold
C34_Witness ==
    \E h \in Calls :
        /\ call[h].pc = "done"
        /\ call[h].statsSync = "rejected"
        /\ call[h].response.success
        /\ call[h].response.result = call[h].result
        /\ cache[call[h].cacheKey].result = call[h].result
        /\ Len(analysisHistory) >= 1

----------------------------------------------------------------------------
(* Properties of the monitor *)

\* handleAnalysisResult has decided about the row
Decided == monitor.pc \in {"timer", "done"} /\ monitor.settings # NoResult
               /\ Has(monitor.settings, "showSafeIndicators")

\* moveToQuarantine was requested for the row
QuarantineRequested == monitor.pc = "timer" \/ monitor.page # NoResult

\* C21: the monitor requests the quarantine of an analysed email exactly
\* when the result it was handed is a threat, autoQuarantine is not switched
\* off, and the confidence of the result is strictly greater than the
\* configured confidenceThreshold
C21_QuarantineIffAboveThreshold ==
    Decided =>
        (QuarantineRequested <=>
            /\ BoolProp(monitor.result, "threat")
            /\ syncStore.autoQuarantine
            /\ fgt(monitor.result.confidence, syncStore.confidenceThreshold))

\* a threat whose confidence equals the threshold of 0.6 is not quarantined
C21_Witness ==
    /\ Decided
    /\ monitor.warning
    /\ BoolProp(monitor.result, "threat")
    /\ syncStore.autoQuarantine
    /\ monitor.result.confidence = syncStore.confidenceThreshold
    /\ ~QuarantineRequested

\* moveToQuarantine has run for the row
QuarantineRan == monitor.pc = "done" /\ monitor.page # NoResult

\* the notice of the catch block of moveToQuarantine
FailureNotice == "Unable to automatically quarantine. Please report as spam manually."

\* C22: moveToQuarantine sends emailQuarantined exactly when an action of
\* its chain moved the mail; when none did, it shows the failure notice,
\* sends no emailQuarantined and leaves the three counters as they were
C22_QuarantinedIffMoved ==
    QuarantineRan =>
        /\ (QuarantinedSent = 1) <=> monitor.moved
        /\ ~monitor.moved =>
              /\ \E i \in 1..Len(monitor.notices) : monitor.notices[i] = FailureNotice
              /\ localStats.totalScanned = InstalledStats.totalScanned
              /\ localStats.threatsDetected = InstalledStats.threatsDetected
              /\ localStats.emailsQuarantined = InstalledStats.emailsQuarantined

\* the response of the orchestrator carries a result
Carried == monitor.response # NoResult /\ monitor.response.success

\* C23: the monitor decides from the result carried in the response: when
\* that result has threat = true the row is marked and updateStats reports
\* a threat; when the response is missing or unsuccessful the row is safe
C23_DecisionFromResult ==
    Decided =>
        /\ (Carried /\ BoolProp(monitor.response.result, "threat")) =>
              /\ monitor.warning
              /\ BoolProp(monitor.sent[1].data, "isThreat")
        /\ ~Carried =>
              /\ ~monitor.warning
              /\ ~BoolProp(monitor.sent[1].data, "isThreat")
              /\ ~QuarantineRequested

----------------------------------------------------------------------------
(* Properties of the scan history *)

\* the entry updateStatistics pushes for the k-th message
Pushed(k) ==
    [ timestamp |-> k, threat |-> Arrival(k).isThreat, provider |-> Arrival(k).provider ]

\* the most recent min(n, 100) of the first n entries, oldest first
MostRecent(n) ==
    LET kept == IF n < SCAN_HISTORY_CAP THEN n ELSE SCAN_HISTORY_CAP
    IN  [i \in 1..kept |-> Pushed(n - kept + i)]

\* C24: after n updateStats messages handled one after the other from an
\* empty log, scanHistory holds the most recent min(n, 100) entries in
\* arrival order (after 101, the entries of messages 2 to 101)
C24_HistoryIsLastHundred ==
    localStats.scanHistory = MostRecent(localStats.totalScanned)

\* message 101 has been recorded and the entry of message 1 is gone
C24_Witness ==
    /\ localStats.totalScanned = SCAN_HISTORY_CAP + 1
    /\ update[1].pc = "done"
    /\ Len(localStats.scanHistory) = SCAN_HISTORY_CAP
    /\ localStats.scanHistory[1] = Pushed(2)
    /\ localStats.scanHistory[SCAN_HISTORY_CAP] = Pushed(SCAN_HISTORY_CAP + 1)

----------------------------------------------------------------------------
(* Properties of the alarms *)

\* the callback of the cacheCleanup get runs, within the hour of the get
SweepRuns == sweep.pc = "get" /\ sweep'.pc = "done" /\ now - sweep.issued < CACHE_TTL_MS

\* the age of a cache entry exceeds the TTL
Expired(entry) == now - entry.timestamp > CACHE_TTL_MS

\* C25: when the cacheCleanup handler has run, no cache entry that was
\* older than the TTL at the sweep remains, and every other entry of the
\* store (cache entries within the TTL, statistics, history, notification
\* data) is as it was
C25_SweepRemovesExpiredOnly ==
    [][ SweepRuns =>
          /\ \A k \in DOMAIN cache' : ~Expired(cache'[k])
          /\ \A k \in DOMAIN cache :
                ~Expired(cache[k]) => k \in DOMAIN cache' /\ cache'[k] = cache[k]
          /\ UNCHANGED << localStats, analysisHistory, notifications >> ]_vars

\* the alarm handler of invocation s runs
AlarmFires(s) == sync[s].pc = "idle" /\ sync'[s].pc # "idle"

\* the statistics hold the totals of the body
TotalsAre(stats, body) ==
    /\ stats.totalScanned = CountProp(body, "total_scanned")
    /\ stats.threatsDetected = CountProp(body, "threats_detected")
    /\ stats.emailsQuarantined = CountProp(body, "emails_quarantined")

----------------------------------------------------------------------------
(* Properties of the session *)

\* a 401 has cleared the session and no setAuth has stored one since
SessionCleared ==
    /\ syncStore.userToken = Null
    /\ \E h \in Calls : HasOutcome(call[h], "401")

\* the requests the invocation issues in the step
NewRequests(h) ==
    { call'[h].requests[i] : i \in Len(call[h].requests) + 1..Len(call'[h].requests) }

\* C28: from the 401 that cleared the session to the next setAuth, every
\* request that goes out carries the API key or the demo key, and no
\* request for /stats is issued, neither after an analysis nor by the
\* dashboardSync alarm
C28_NoSessionUseAfter401 ==
    [][ SessionCleared =>
          /\ \A h \in Calls : \A r \in NewRequests(h) :
                /\ r.path # "/stats"
                /\ r.auth = "Bearer " \o StrOr(call'[h].settings.apiKey, "demo-key")
          /\ \A s \in Syncs : sync'[s].requests = sync[s].requests ]_vars

\* the token invocation h sent with its latest /analyze request
SentToken(h) == call[h].requests[Len(call[h].requests)].auth

\* C29: a 401 clears only the session that the failing request carried: if
\* setAuth has installed another token while the request was in flight, the
\* 401 leaves that token in memory and in the store
C29_401ClearsOwnSessionOnly ==
    [][ \A h \in Calls :
          (/\ Step401(h)
           /\ SentToken(h) = "Bearer " \o LoggedInStore.userToken
           /\ userToken \in Tokens) =>
              /\ userToken' = userToken
              /\ syncStore'.userToken = syncStore.userToken ]_vars

\* C30: when the storage read of the load has called back and every setAuth
\* message has been handled, userToken and userId in memory are the ones in
\* the synchronized store, however the callback and the messages were
\* ordered; no 401 has been received
C30_MemoryMatchesStore ==
    (startup.pc = "done" /\ \A h \in Calls : ~HasOutcome(call[h], "401")) =>
        /\ userToken = syncStore.userToken
        /\ userId = syncStore.userId

----------------------------------------------------------------------------
(* Properties of the counters *)

\* no handler of a statistics message is between its get and its set
CountersAtRest ==
    /\ \A u \in Updates : update[u].pc \in {"idle", "done"}
    /\ \A q \in Quarantines : quarantine[q].pc \in {"idle", "done"}

\* C31: when the handlers have completed, emailsQuarantined has been raised
\* by one for every emailQuarantined message handled, however the handlers
\* of these and of updateStats messages were interleaved
C31_QuarantinesAllCounted ==
    CountersAtRest =>
        localStats.emailsQuarantined
            = InstalledStats.emailsQuarantined
                + Cardinality({ q \in Quarantines : quarantine[q].pc = "done" })

----------------------------------------------------------------------------
(* Properties of the cache lookup *)

\* the step in which invocation h issues the get of getCachedResult, or in
\* which the callback of that get runs
LookupStep(h) ==
    /\ call[h].pc \in {"getSettings", "getCached"}
    /\ call'[h].pc # call[h].pc

\* the get of invocation h yielded an entry that is past the TTL
YieldedExpired(h) ==
    /\ call[h].pc = "getCached"
    /\ call[h].cacheKey \in DOMAIN call[h].cached
    /\ now - call[h].cached[call[h].cacheKey].timestamp >= CACHE_TTL_MS

\* C35: getCachedResult leaves the store as it is; an entry past the TTL is
\* answered as a miss and stays where it was; an entry disappears only in
\* the callback of the cacheCleanup sweep and changes only when a call
\* that comes back writes its result under the same key
C35_LookupLeavesStore ==
    [][ /\ \A h \in Calls :
              /\ LookupStep(h) => UNCHANGED cache
              /\ (YieldedExpired(h) /\ LookupStep(h)) =>
                    /\ ~call'[h].lookup.hit
                    /\ call'[h].pc = "fetch"
        /\ \A k \in DOMAIN cache :
              IF k \notin DOMAIN cache'
              THEN sweep.pc = "get" /\ sweep'.pc = "done"
              ELSE cache'[k] # cache[k] =>
                      \E h \in Calls : ComesBack(h) /\ call[h].cacheKey = k ]_vars

\* a lookup found an entry past the TTL, the call has gone to the service,
\* and the entry is still in the store
C35_Witness ==
    \E h \in Calls :
        /\ call[h].pc = "fetch"
        /\ call[h].lookup.stored
        /\ ~call[h].lookup.hit
        /\ call[h].lookup.age > CACHE_TTL_MS
        /\ call[h].cacheKey \in DOMAIN cache
        /\ now - cache[call[h].cacheKey].timestamp > CACHE_TTL_MS

----------------------------------------------------------------------------
(* Properties of the two histories *)

\* history is the snapshot with its oldest entry gone and one entry of the
\* present time at its end
OldestEvicted(history, snapshot, cap) ==
    /\ Len(history) = cap
    /\ SubSeq(history, 1, cap - 1) = Tail(snapshot)
    /\ history[cap].timestamp = now

\* C36: scanHistory never holds more than 100 entries and analysisHistory
\* never more than 50, however updateStats handlers and analyze calls are
\* interleaved; a handler that read a full history writes it back without
\* its oldest entry and with the new entry at the end
C36_HistoriesStayCapped ==
    /\ [](/\ Len(localStats.scanHistory) <= SCAN_HISTORY_CAP
          /\ Len(analysisHistory) <= ANALYSIS_HISTORY_CAP)
    /\ [][ /\ \A u \in Updates :
                 (/\ update[u].pc = "get"
                  /\ update'[u].pc = "set"
                  /\ Len(update[u].stats.scanHistory) = SCAN_HISTORY_CAP) =>
                     OldestEvicted(localStats'.scanHistory, update[u].stats.scanHistory,
                                   SCAN_HISTORY_CAP)
           /\ \A h \in Calls :
                 (/\ call[h].pc = "logCallback"
                  /\ call'[h].pc = "logSet"
                  /\ Len(call[h].history) = ANALYSIS_HISTORY_CAP) =>
                     OldestEvicted(analysisHistory', call[h].history,
                                   ANALYSIS_HISTORY_CAP) ]_vars

\* two updateStats handlers and two calls have written to full histories:
\* both are at their cap and end with an entry of this run
C36_Witness ==
    /\ \A u \in Updates : update[u].pc = "done"
    /\ \A h \in Calls : call[h].pc = "done" /\ ~call[h].lookup.hit
    /\ Len(localStats.scanHistory) = SCAN_HISTORY_CAP
    /\ localStats.scanHistory[SCAN_HISTORY_CAP].timestamp = now
    /\ localStats.scanHistory[1].timestamp > LoggedAt(1, SCAN_HISTORY_CAP)
    /\ Len(analysisHistory) = ANALYSIS_HISTORY_CAP
    /\ analysisHistory[ANALYSIS_HISTORY_CAP].timestamp = now
    /\ analysisHistory[1].timestamp > LoggedAt(1, ANALYSIS_HISTORY_CAP)

----------------------------------------------------------------------------
(* Properties of the totals *)

\* C37: the stored threatsDetected never exceeds the stored totalScanned,
\* and no provider's threats exceed its scanned, however updateStats
\* handlers and dashboard resyncs are interleaved, as long as the dashboard
\* reports no more threats than scans
C37_ThreatsWithinScans ==
    /\ CountProp(localStats, "threatsDetected") <= CountProp(localStats, "totalScanned")
    /\ Has(localStats, "providerStats") =>
          \A p \in DOMAIN localStats.providerStats :
              localStats.providerStats[p].threats <= localStats.providerStats[p].scanned

\* an updateStats handler read 5 scans and 2 threats, a resync replaced the
\* totals, and the handler then wrote 6 and 3 over them
C37_Witness ==
    /\ \E s \in Syncs : sync[s].pc = "synced"
    /\ Has(localStats, "lastSync")
    /\ \E u \in Updates :
          /\ update[u].pc \in {"set", "done"}
          /\ update[u].stats.totalScanned = ScannedStats.totalScanned
          /\ BoolProp(update[u].data, "isThreat")
    /\ localStats.totalScanned = ScannedStats.totalScanned + 1
    /\ localStats.threatsDetected = ScannedStats.threatsDetected + 1
    /\ Has(localStats, "providerStats")
    /\ \E p \in DOMAIN localStats.providerStats :
          localStats.providerStats[p].threats = localStats.providerStats[p].scanned

----------------------------------------------------------------------------
(* Properties of a cache hit *)

\* call h is answered from the cache in this step
HitStep(h) ==
    /\ call[h].pc = "getCached"
    /\ call'[h].lookup # NoResult
    /\ call'[h].lookup.hit

\* C38: a call whose lookup hits is answered with the stored result as it
\* is stored, and does nothing else: it makes no request, shows no
\* notification, appends nothing to analysisHistory and writes nothing to
\* the cache, so the entry keeps its timestamp
C38_HitHasNoOtherEffect ==
    [][ \A h \in Calls :
          /\ HitStep(h) =>
                /\ call'[h].pc = "done"
                /\ call'[h].response =
                       [ success |-> TRUE,
                         result |-> call[h].cached[call[h].cacheKey].result ]
                /\ call'[h].requests = <<>>
                /\ call'[h].statsSync = ""
                /\ ~call'[h].notified
                /\ UNCHANGED << cache, analysisHistory, notifications, localStats,
                                syncStore >>
          /\ (/\ call[h].pc = "done"
              /\ call[h].lookup # NoResult
              /\ call[h].lookup.hit) => call'[h] = call[h] ]_vars

\* a call has been answered from the entry an earlier call stored, some
\* time after it was stored; the entry still carries the time of that
\* earlier call
C38_Witness ==
    \E h \in Calls :
        /\ call[h].pc = "done"
        /\ call[h].lookup # NoResult
        /\ call[h].lookup.hit
        /\ call[h].lookup.age > 0
        /\ call[h].cacheKey \in DOMAIN cache
        /\ cache[call[h].cacheKey].timestamp = now - call[h].lookup.age
        /\ call[h].response.result = cache[call[h].cacheKey].result
        /\ Len(analysisHistory) = 1

----------------------------------------------------------------------------
(* Properties of the cache key *)

\* call g began after call h was answered, h's result is cached and
\* younger than the TTL, and the two messages agree on the first 24
\* characters of from ++ subject ++ bodyText
FollowsAlike(h, g) ==
    /\ h \in call[g].after
    /\ call[h].result # NoResult
    /\ call[h].cacheKey \in DOMAIN cache
    /\ now - cache[call[h].cacheKey].timestamp < CACHE_TTL_MS
    /\ call[g].pc = "done"
    /\ contentPrefix(RecordOf(call[g])) = contentPrefix(RecordOf(call[h]))

\* C39: messages that agree on the first 24 characters of
\* from ++ subject ++ bodyText get the same cache key, so the later one is
\* answered, within the TTL, with the verdict cached for the earlier one,
\* whatever follows the 24 characters
C39_PrefixDecidesAnswer ==
    \A h, g \in Calls :
        FollowsAlike(h, g) =>
            /\ call[g].cacheKey = call[h].cacheKey
            /\ call[g].response.result = cache[call[h].cacheKey].result

----------------------------------------------------------------------------
(* Properties of the row monitor *)

\* the scans begun for an id
ScansOf(emailId) ==
    { k \in 1..Len(monitor.scans) : monitor.scans[k].emailId = emailId }

\* C40: whatever rows appear and however often the observer fires, a
\* monitor begins at most one scan per email id, the id is in
\* processedEmails from the moment the scan begins, and so at most one
\* quarantine per id comes out of row scanning
C40_ScannedOncePerId ==
    \A k \in 1..Len(monitor.scans) :
        LET emailId == monitor.scans[k].emailId
        IN  /\ emailId # NoId
            /\ emailId \in monitor.processedEmails
            /\ ScansOf(emailId) = {k}
            /\ Cardinality({ j \in ScansOf(emailId) :
                   monitor.scans[j].pc \in {"quarantineDue", "quarantined"} }) <= 1

\* a message that was scanned and quarantined is on the list twice, and
\* checkForNewEmails has run over both rows
C40_Witness ==
    \E i, j \in 1..Len(monitor.rows) :
        /\ i < j
        /\ monitor.rows[i].id # NoId
        /\ monitor.rows[i].id = monitor.rows[j].id
        /\ monitor.checked >= j
        /\ \E k \in ScansOf(monitor.rows[i].id) :
              /\ monitor.scans[k].row = i
              /\ monitor.scans[k].pc = "quarantined"

====
